---- MODULE Spec2Model ----
(***************************************************************************)
(* Verification model of the botadventure audio-to-video pipeline and      *)
(* thread navigation.                                                      *)
(*                                                                         *)
(*   Spec        the encoding engine module (src/utils/ffmpegCore.ts):     *)
(*               the memoized engine load and the step-by-step encoder     *)
(*               invocations on the engine's shared virtual filesystem.    *)
(*   SpecEditor  the scene editor and the posting flow                     *)
(*               (src/components/SceneEditor.ts, BotAdventureApp):         *)
(*               the freshness tracking of the cached video.               *)
(*   SpecConvert the editor's audio controls and convertAudioToVideo with  *)
(*               every await settling: the conversion guard.               *)
(*   SpecFrames  the frame sequence generator                              *)
(*               (src/utils/audioVisualizer.ts): analyzeAudio, the frame   *)
(*               loop of generateWaveformFrames and the compositor         *)
(*               drawWaveform, for bounded families of inputs.             *)
(*   SpecEncode  one waveform conversion after the other (generation, then *)
(*               createVideoFromFrames) on a loaded engine, with the       *)
(*               engine's progress events and a posting conversion that    *)
(*               may run at the same time.                                 *)
(*   SpecLog     encoder invocations on a loaded engine with the engine's  *)
(*               log events: the capture of the last error line.           *)
(*   SpecThread  the thread navigation of BotAdventureApp and              *)
(*               components/ThreadNavigator.ts on a loaded thread:         *)
(*               selectPost, resetThreadPath and the delayed selection.    *)
(*                                                                         *)
(* Every await of the source is a step boundary: the code between two      *)
(* awaits is one atomic action, as on the single-threaded event loop.      *)
(***************************************************************************)
EXTENDS Integers, Naturals, Sequences, FiniteSets, TLC

\* ------------------------------------------------------------------ bounds
\* Number of loadFFmpeg() calls explored (each creates one FFmpeg instance).
MaxLoads == 3
\* frames.length of a createVideoFromFrames call.
NumFrames == 2
\* Longest decoded audio explored, in PCM samples (rawData.length).
MaxSamples == 4
\* Number of error-tagged engine log lines explored.
MaxLog == 2
\* Number of engine progress events explored per waveform conversion.
MaxProgress == 1
\* Longest threadPath explored, selectPost calls explored in flight at the
\* same time, and delayed selections explored waiting at the same time.
MaxPath == 3
MaxPending == 2
MaxTimers == 1

VARIABLES
  \* ---- module state of ffmpegCore.ts
  ffmpeg,          \* the engine instance (0 = null, else the id of the instance)
  ffmpegLoaded,    \* the loaded flag
  loadingPromise,  \* the memoized in-flight load promise (0 = null)
  nLoads,          \* number of loadFFmpeg() calls so far (= ids handed out)
  promState,       \* state of the promise returned by the p-th loadFFmpeg()
  promValue,       \* the instance the p-th promise resolved to
  fs,              \* the engine's virtual filesystem: file -> writer (0 = absent)
  inv,             \* the encoder invocation of each caller
  lastFFmpegError, \* the captured log line (0 = '', else the id of the line)
  nLog,            \* number of error-tagged log lines so far (= ids handed out)
  currentProgressCallback, \* "null", or which closure is registered
  nProg,           \* progress events delivered during the current conversion
  ops,             \* history: engine operations of the followed conversion
  \* ---- a generateWaveformFrames() call and its onProgress callback
  gen,             \* inputs, locals and result of the call
  calls,           \* history: the calls of the conversion's updateProgress
  \* ---- state of SceneEditor and of BotAdventureApp.postToBluesky
  ed,              \* the editor's fields and the DOM inputs it reads
  conv,            \* the running convertAudioToVideo() call
  post,            \* the running postToBluesky() call
  \* ---- thread navigation of BotAdventureApp
  app              \* threadPath, editingReplyTo, the rendered view, pending calls

vars == <<ffmpeg, ffmpegLoaded, loadingPromise, nLoads, promState, promValue, fs, inv,
          lastFFmpegError, nLog, currentProgressCallback, nProg, ops, gen, calls,
          ed, conv, post, app>>

(***************************************************************************)
(*        EDITOR STATE: src/components/SceneEditor.ts (fields)             *)
(***************************************************************************)
\* Sample values of the inputs; "" is the empty text area / no background.
Texts == {"", "a"}
Backgrounds == {"", "img"}
\* Audio files the user can pick; NoAudio is audioFile = null.
NoAudio == "null"
AudioFiles == {"a1", "a2"}

\* convertedVideoBlob: null, or a video blob (its content is not looked at).
NoBlob == [present |-> FALSE]
VideoBlob == [present |-> TRUE]

\* The fields of a new SceneEditor (lines 13-28) plus the DOM inputs it reads.
NewEditor(t, c, b, w) ==
  [imageText |-> t, choices |-> c, lastBackgroundImage |-> b, useWaveform |-> w,
   audioFile |-> NoAudio, convertedVideoBlob |-> NoBlob,
   isConvertingAudio |-> FALSE, videoPreviewOutdated |-> FALSE,
   lastVideoSettings |-> [imageText |-> "", choices |-> "", backgroundImage |-> "",
                          useWaveform |-> TRUE],
   previewRefreshTimer |-> TRUE, pane |-> "other", postDisabled |-> FALSE]

\* "-" = not read yet.
IdleConv == [pc |-> "idle", useWaveformViz |-> FALSE,
             sceneText |-> "-", choicesText |-> "-", bg |-> "-",
             framesAudio |-> "-", audio |-> "-"]

IdlePost == [pc |-> "idle", cached |-> FALSE]

EditorIdle ==
  /\ ed = NewEditor("", "", "", TRUE)
  /\ conv = IdleConv
  /\ post = IdlePost

(***************************************************************************)
(*        THREAD NAVIGATION STATE: BotAdventureApp (fields)                *)
(***************************************************************************)
\* The posts of the loaded thread: RootPost has two replies, one of which has
\* a reply of its own.  NoPost is null.
NoPost == 0
RootPost == 1
Posts == 1..4

\* What getPostThread(post.uri, 1) answers for a post: its direct replies.
RepliesOf(p) ==
  CASE p = 1 -> <<2, 3>>
    [] p = 2 -> <<4>>
    [] OTHER -> <<>>

\* A ThreadNode; fetchedFor is history: the post whose replies the node
\* holds (NoPost while replies is still the empty array of a new node).
ThreadNode(p, r, d, f) == [post |-> p, replies |-> r, depth |-> d, fetchedFor |-> f]

\* The fields of a new BotAdventureApp; view is the threadPath as the
\* navigator last rendered it, pending the selectPost calls waiting for
\* their fetch, timers the delayed selections the navigator scheduled.
NewApp == [threadPath |-> <<>>, editingReplyTo |-> NoPost, view |-> <<>>,
           pending |-> <<>>, timers |-> <<>>]

NavIdle == app = NewApp

(***************************************************************************)
(*              FRAME GENERATOR: src/utils/audioVisualizer.ts              *)
(***************************************************************************)
\* ---- numbers
\* A number of the source that need not be whole is an exact fraction
\* <<n, d>> with d > 0, in lowest terms; the operators below are the
\* arithmetic of the source on such values.
RECURSIVE Gcd(_, _)
Gcd(a, b) == IF b = 0 THEN a ELSE Gcd(b, a % b)

Abs(n) == IF n < 0 THEN -n ELSE n

Q(n, d) == LET g == Gcd(Abs(n), d) IN <<n \div g, d \div g>>

QMul(x, y) == Q(x[1] * y[1], x[2] * y[2])
\* x / y, for y > 0
QDiv(x, y) == Q(x[1] * y[2], x[2] * y[1])
QSub(x, y) == Q(x[1] * y[2] - y[1] * x[2], x[2] * y[2])
QLess(x, y) == x[1] * y[2] < y[1] * x[2]
\* Math.floor, Math.ceil
QFloor(x) == x[1] \div x[2]
QCeil(x) == -((-x[1]) \div x[2])

SetMax(S) == CHOOSE m \in S : \A x \in S : x <= m
Min(a, b) == IF a < b THEN a ELSE b

\* VIDEO_DIMENSIONS (config/ffmpegSettings.ts)
VIDEO_WIDTH == 720
VIDEO_HEIGHT == 1280

\* ---- analyzeAudio(audioFile, barWidth)
\* The decoded first channel (rawData) is a sequence of samples, in units of
\* half the full scale; audioBuffer.duration is its length over the rate.
Amps == {-2, 0, 1}
SampleRate == 2
Audios == UNION {[1..len -> Amps] : len \in 1..MaxSamples}
\* A tone: every sample at the same level.
Tone(len) == [j \in 1..len |-> 1]

\* barWidth values, as fractions: 4 (WAVEFORM_SETTINGS), 240, 500.5, 1000.
BarWidths == {<<4, 1>>, <<240, 1>>, <<1001, 2>>, <<1000, 1>>}

\* Math.floor(VIDEO_WIDTH / barWidth)
TargetSamplesRoundedUp(barWidth) == QCeil(QDiv(Q(VIDEO_WIDTH, 1), barWidth))

TargetSamples(barWidth) == QFloor(QDiv(Q(VIDEO_WIDTH, 1), barWidth))

\* The peak of |rawData[j]| for start <= j < end (0-based), 0 for no sample.
Peak(raw, start, end) ==
  LET S == {Abs(raw[j + 1]) : j \in start..(end - 1)}
  IN IF S = {} THEN 0 ELSE SetMax(S)

\* Lines 75-109.  With targetSamples = 0 the block size is not a number and
\* Math.max() of nothing is -Infinity: no block is looked at and nothing is
\* normalised.
AnalyzeAudio(raw, barWidth) ==
  LET targetSamples == TargetSamples(barWidth)
      blockSize == IF targetSamples = 0 THEN 0 ELSE Len(raw) \div targetSamples
      peaks == [i \in 1..targetSamples |->
                  Peak(raw, (i - 1) * blockSize,
                       Min((i - 1) * blockSize + blockSize, Len(raw)))]
      maxSample == IF targetSamples = 0 THEN -1
                   ELSE SetMax({peaks[i] : i \in 1..targetSamples})
  IN [sampleData |-> [i \in 1..targetSamples |->
                        IF maxSample > 0 THEN Q(peaks[i], maxSample) ELSE Q(peaks[i], 1)],
      duration |-> Q(Len(raw), SampleRate)]

\* ---- drawWaveform(ctx, sampleData, options, progress, backgroundImg)
\* The canvas is looked at in three places: above the waveform area, in the
\* waveform area between two bars, and in the waveform area under the first
\* bar next to the centre line.
Sites == {"upper", "gap", "bar"}
WaveformSites == {"gap", "bar"}

\* A pixel is the stack of paints that make up its colour: an opaque paint
\* replaces what was there, a translucent one is blended on top of it.  A
\* paint is its name and, for a bar, the red, green and blue of its colour.
BlankCanvas == [p \in Sites |-> <<>>]
BackgroundPaint == <<"backgroundColor", 0, 0, 0>>
ImagePaint == <<"backgroundImage", 0, 0, 0>>
OverlayPaint == <<"waveformOverlay", 0, 0, 0>>
TextPaint == <<"textOverlay", 0, 0, 0>>

\* A background image: its size and the places where it is fully transparent.
NoImage == [present |-> FALSE, width |-> 0, height |-> 0, clear |-> {}]
Image(w, h, clear) == [present |-> TRUE, width |-> w, height |-> h, clear |-> clear]
Images == {NoImage, Image(1440, 720, {}), Image(360, 640, {}),
           Image(600, 1200, {"upper", "gap"})}

NoRect == [drawWidth |-> Q(0, 1), drawHeight |-> Q(0, 1),
           offsetX |-> Q(0, 1), offsetY |-> Q(0, 1)]

\* The image scaled to lie within the canvas.
DrawRectContain(img) ==
  LET imgAspect == Q(img.width, img.height)
      canvasAspect == Q(VIDEO_WIDTH, VIDEO_HEIGHT)
      width == Q(VIDEO_WIDTH, 1)
      height == Q(VIDEO_HEIGHT, 1)
  IN IF QLess(imgAspect, canvasAspect)
       THEN LET drawWidth == QMul(height, imgAspect)
            IN [drawWidth |-> drawWidth, drawHeight |-> height,
                offsetX |-> QMul(QSub(width, drawWidth), Q(1, 2)), offsetY |-> Q(0, 1)]
       ELSE LET drawHeight == QDiv(width, imgAspect)
            IN [drawWidth |-> width, drawHeight |-> drawHeight,
                offsetX |-> Q(0, 1), offsetY |-> QMul(QSub(height, drawHeight), Q(1, 2))]

\* Lines 141-158: the rectangle the background image is drawn into.
DrawRect(img) ==
  LET imgAspect == Q(img.width, img.height)
      canvasAspect == Q(VIDEO_WIDTH, VIDEO_HEIGHT)
      width == Q(VIDEO_WIDTH, 1)
      height == Q(VIDEO_HEIGHT, 1)
  IN IF QLess(canvasAspect, imgAspect)
       THEN LET drawWidth == QMul(height, imgAspect)
            IN [drawWidth |-> drawWidth, drawHeight |-> height,
                offsetX |-> QMul(QSub(width, drawWidth), Q(1, 2)), offsetY |-> Q(0, 1)]
       ELSE LET drawHeight == QDiv(width, imgAspect)
            IN [drawWidth |-> width, drawHeight |-> drawHeight,
                offsetX |-> Q(0, 1), offsetY |-> QMul(QSub(height, drawHeight), Q(1, 2))]

\* The rectangle reaches over the whole canvas.
RectCoversCanvas(r) ==
  /\ ~QLess(Q(0, 1), r.offsetX)
  /\ ~QLess(Q(0, 1), r.offsetY)
  /\ ~QLess(r.drawWidth, QSub(Q(VIDEO_WIDTH, 1), r.offsetX))
  /\ ~QLess(r.drawHeight, QSub(Q(VIDEO_HEIGHT, 1), r.offsetY))

\* defaultOptions (lines 36-51): '#e6e6ff' and '#7777bb' as red, green, blue;
\* the glow options a caller can set.
WaveformColor == <<230, 230, 255>>
WaveformPlayedColor == <<119, 119, 187>>
PlayAreaWidth == 50
Brightnesses == {0, 100, 255}
DefaultOptions == [playAreaGlow |-> TRUE, playAreaBrightness |-> 100]

QAbs(x) == <<Abs(x[1]), x[2]>>

\* Lines 207-217: the colour of bar i of a frame before the glow.
BaseColorInclusive(i, sampleCount, progress) ==
  IF ~QLess(progress, Q(i, sampleCount)) THEN WaveformPlayedColor ELSE WaveformColor

BaseColor(i, sampleCount, progress) ==
  IF QLess(Q(i, sampleCount), progress) THEN WaveformPlayedColor ELSE WaveformColor

\* Lines 219-236: the glow near the play position.  The hex colour is parsed
\* into its channels, each is raised by `brighten` up to 255 and written
\* back as two hex digits.
BarColor(i, sampleCount, progress, options) ==
  LET barProgress == Q(i, sampleCount)
      base == BaseColor(i, sampleCount, progress)
      distanceFromPlayhead == QAbs(QSub(barProgress, progress))
      glowRange == Q(PlayAreaWidth, VIDEO_WIDTH)
      glowStrength == QSub(Q(1, 1), QDiv(distanceFromPlayhead, glowRange))
      maxBrightness == IF options.playAreaBrightness # 0
                         THEN options.playAreaBrightness ELSE 100
      brighten == QFloor(QMul(glowStrength, Q(maxBrightness, 1)))
  IN IF options.playAreaGlow /\ QLess(distanceFromPlayhead, glowRange)
       THEN <<Min(255, base[1] + brighten), Min(255, base[2] + brighten),
              Min(255, base[3] + brighten)>>
       ELSE base

\* ctx.fillStyle of every bar of one frame, and the colour it had at line 217.
BarColors(sampleCount, progress, options) ==
  [i \in 1..sampleCount |->
     [base |-> BaseColor(i - 1, sampleCount, progress),
      color |-> BarColor(i - 1, sampleCount, progress, options)]]

\* The paint of the first bar.
BarPaint(sampleCount, progress, options) ==
  <<"bar">> \o BarColor(0, sampleCount, progress, options)

\* Lines 138-252: the background (the image drawn over what the canvas holds,
\* or the opaque background colour), the translucent overlay on the waveform
\* area, then the bars; a bar of height 0 paints nothing.
DrawWaveform(canvas, sampleData, options, progress, img) ==
  LET bg == [p \in Sites |->
               IF img.present
                 THEN IF RectCoversCanvas(DrawRect(img)) /\ p \notin img.clear
                        THEN <<ImagePaint>> ELSE canvas[p]
                 ELSE <<BackgroundPaint>>]
      dim == [p \in Sites |->
                IF p \in WaveformSites THEN Append(bg[p], OverlayPaint) ELSE bg[p]]
  IN [p \in Sites |->
        IF p = "bar" /\ Len(sampleData) > 0 /\ sampleData[1][1] > 0
          THEN <<BarPaint(Len(sampleData), progress, options)>> ELSE dim[p]]

\* Line 504: ctx.drawImage(textOverlayCanvas, 0, 0); the rendered text (its
\* shadows and the translucent choice boxes) lies above the waveform area.
CompositeText(canvas) == [canvas EXCEPT !["upper"] = Append(@, TextPaint)]

\* ---- generateWaveformFrames(audioFile, options, onProgress)
\* Line 489
TotalFramesRoundedDown(duration, fps) == QFloor(QMul(duration, Q(fps, 1)))

TotalFrames(duration, fps) == QCeil(QMul(duration, Q(fps, 1)))

\* Line 497
FrameProgressUnforced(frameIndex, totalFrames) ==
  IF totalFrames = 1 THEN Q(0, 1) ELSE Q(frameIndex, totalFrames - 1)

FrameProgress(frameIndex, totalFrames) ==
  IF frameIndex = totalFrames - 1 THEN Q(1, 1) ELSE Q(frameIndex, totalFrames - 1)

\* Line 518: the arguments of onProgress; pushed is frames.length at the call.
ProgressCallFromZero(frameIndex, totalFrames, pushed) ==
  [current |-> frameIndex, total |-> totalFrames, stage |-> "Generating frames",
   pushed |-> pushed, source |-> "generator", fraction |-> Q(0, 1)]

ProgressCall(frameIndex, totalFrames, pushed) ==
  [current |-> frameIndex + 1, total |-> totalFrames, stage |-> "Generating frames",
   pushed |-> pushed, source |-> "generator", fraction |-> Q(0, 1)]

Fps == {1, 3, 10}

\* The call as it is made: the arguments, and the locals before the first
\* await, which is in analyzeAudio, after it created its AudioContext (line 64).
NewGen(raw, fps, barWidth, img, text, cb) ==
  [pc |-> "analyze", raw |-> raw, fps |-> fps, barWidth |-> barWidth,
   image |-> img, text |-> text, cb |-> cb, options |-> DefaultOptions,
   toBlob |-> "jpeg", audioContext |-> "open",
   sampleData |-> <<>>, duration |-> Q(0, 1), totalFrames |-> 0, frameIndex |-> 0,
   frames |-> <<>>, canvas |-> BlankCanvas, rect |-> NoRect]

IdleGen == [NewGen(Tone(1), 10, <<4, 1>>, NoImage, FALSE, FALSE)
             EXCEPT !.pc = "idle", !.audioContext = "none"]

\* The calls explored: every audio with the editor's options and no image or
\* text, tones of every length with every combination of image, text and
\* callback, tones with every setting of the glow, and tones on a canvas
\* the browser cannot encode (toBlob hands its callback null).
GenInputs ==
  {NewGen(raw, 1, bw, NoImage, FALSE, TRUE) : raw \in Audios, bw \in BarWidths}
  \cup {NewGen(Tone(len), f, bw, img, t, cb) :
          len \in 1..MaxSamples, f \in Fps, bw \in {<<4, 1>>, <<1001, 2>>},
          img \in Images, t \in BOOLEAN, cb \in BOOLEAN}
  \cup {[NewGen(Tone(len), 3, <<4, 1>>, NoImage, FALSE, TRUE)
          EXCEPT !.options = [playAreaGlow |-> glow, playAreaBrightness |-> b]] :
          len \in 1..MaxSamples, glow \in BOOLEAN, b \in Brightnesses}
  \cup {[NewGen(Tone(len), 1, <<240, 1>>, NoImage, FALSE, TRUE) EXCEPT !.toBlob = "null"] :
          len \in 1..MaxSamples}

\* Lines 482-492: the canvas is created, the frame count computed; with no
\* frame to generate the function returns at once.
EnterLoop(g) ==
  LET t == TotalFrames(g.duration, g.fps)
  IN [g EXCEPT !.totalFrames = t, !.frameIndex = 0, !.frames = <<>>,
               !.canvas = BlankCanvas, !.pc = IF t = 0 THEN "returned" ELSE "loop"]

\* Lines 475-480
AfterBackground(g) == IF g.text THEN [g EXCEPT !.pc = "text"] ELSE EnterLoop(g)

\* Lines 468-473
AfterAnalysis(g) == IF g.image.present THEN [g EXCEPT !.pc = "loadBg"] ELSE AfterBackground(g)

keepEngineAndEditor ==
  UNCHANGED <<ffmpeg, ffmpegLoaded, loadingPromise, nLoads, promState, promValue, fs, inv,
              lastFFmpegError, nLog, currentProgressCallback, nProg, ops, ed, conv, post,
              app>>

\* `await analyzeAudio(audioFile, opts.barWidth)` resolved: the audio was read
\* and decoded, the samples computed and the AudioContext closed (line 103).
GenAnalyzed ==
  /\ gen.pc = "analyze"
  /\ LET a == AnalyzeAudio(gen.raw, gen.barWidth)
     IN gen' = AfterAnalysis([gen EXCEPT !.sampleData = a.sampleData,
                                         !.duration = a.duration,
                                         !.audioContext = "closed"])
  /\ UNCHANGED calls /\ keepEngineAndEditor

\* `await loadBackgroundImage(opts.backgroundImage)` resolved.
GenBgLoaded ==
  /\ gen.pc = "loadBg"
  /\ gen' = AfterBackground(gen)
  /\ UNCHANGED calls /\ keepEngineAndEditor

\* `await renderTextOverlay(opts.text)` resolved.
GenTextRendered ==
  /\ gen.pc = "text"
  /\ gen' = EnterLoop(gen)
  /\ UNCHANGED calls /\ keepEngineAndEditor

\* One pass of the frame loop (lines 495-525): the frame is drawn on the
\* canvas the earlier frames were drawn on, the text overlay is put on top,
\* the canvas content becomes the frame's blob (resolve(blob!) passes on
\* whatever toBlob hands over, null included), the blob is pushed and
\* onProgress is called.
GenFrame ==
  /\ gen.pc = "loop"
  /\ LET progress == FrameProgress(gen.frameIndex, gen.totalFrames)
         drawn == DrawWaveform(gen.canvas, gen.sampleData, gen.options, progress, gen.image)
         composed == IF gen.text THEN CompositeText(drawn) ELSE drawn
         frames == Append(gen.frames,
                          [index |-> gen.frameIndex, progress |-> progress,
                           pixels |-> composed, blob |-> gen.toBlob,
                           bars |-> BarColors(Len(gen.sampleData), progress, gen.options)])
     IN /\ gen' = [gen EXCEPT !.canvas = composed,
                              !.rect = IF gen.image.present THEN DrawRect(gen.image) ELSE @,
                              !.frames = frames,
                              !.frameIndex = @ + 1,
                              !.pc = IF gen.frameIndex + 1 < gen.totalFrames
                                       THEN "loop" ELSE "returned"]
        /\ calls' = IF gen.cb
                      THEN Append(calls, ProgressCall(gen.frameIndex, gen.totalFrames,
                                                      Len(frames)))
                      ELSE calls
  /\ keepEngineAndEditor

\* The audio cannot be read or decoded (analyzeAudio throws at line 67 or 70,
\* nothing catches it on the way out), the image not loaded or the text not
\* rendered.
GenRejects ==
  /\ gen.pc \in {"analyze", "loadBg", "text"}
  /\ gen' = [gen EXCEPT !.pc = "failed"]
  /\ UNCHANGED calls /\ keepEngineAndEditor

(***************************************************************************)
(*                       ENGINE: src/utils/ffmpegCore.ts                   *)
(***************************************************************************)

\* The two call sites that can have an encoder invocation in flight:
\* 1 = SceneEditor.convertAudioToVideo, 2 = BotAdventureApp.postToBluesky.
Slots == {1, 2}

\* What each call site invokes: the editor createVideoFromFrames ("frames")
\* or createVideoFromAudio -> runConversion ("simple"); posting only the latter.
SlotKinds(s) == IF s = 1 THEN {"frames", "simple"} ELSE {"simple"}

Promises == 1..MaxLoads

\* i.toString() as the sequence of its decimal digits.
RECURSIVE Digits(_)
Digits(n) == IF n < 10 THEN <<n>> ELSE Append(Digits(n \div 10), n % 10)

\* String.padStart(len, fill)
RECURSIVE PadStart(_, _, _)
PadStart(str, len, fill) ==
  IF Len(str) >= len THEN str ELSE PadStart(<<fill>> \o str, len, fill)

\* Names in the engine filesystem: a stem and, for a frame, the digits of
\* `frame_${i.toString().padStart(5, '0')}.jpg`.
FrameNameUnpadded(i) == <<"frame", Digits(i)>>

FrameName(i) == <<"frame", PadStart(Digits(i), 5, 0)>>
AudioName == <<"audio", <<>>>>
ImageName == <<"image", <<>>>>
OutputName == <<"output", <<>>>>
FrameNames == {FrameName(i) : i \in 0..(NumFrames - 1)}
Files == FrameNames \cup {AudioName, ImageName, OutputName}

\* The three names runConversion cleans, in the order of its loops.
SimpleFiles == <<AudioName, ImageName, OutputName>>

\* The entries an invocation of the given kind writes.
WrittenBy(kind) ==
  IF kind = "frames" THEN FrameNames \cup {AudioName, OutputName}
  ELSE {AudioName, ImageName, OutputName}

\* The detail of a thrown encode error: a captured log line, or the fixed
\* 'Unknown error ...' text.
NoDetail == [unknown |-> FALSE, line |-> 0]

\* cb: the onProgress argument; seen: the latest error-tagged log line
\* captured since the call was made (0 = none); detail: see above.
IdleInv == [kind |-> "none", pc |-> "idle", wait |-> 0, ff |-> 0, i |-> 0,
            err |-> "none", img |-> FALSE, cb |-> "none", seen |-> 0,
            detail |-> NoDetail]

\* ---- engine primitives
\* ff.deleteFile(name): removes the entry; throws when there is none.
DeleteThrows(f) == fs[f] = 0
Deleted(f) == [fs EXCEPT ![f] = 0]
\* ff.writeFile(name, data) by invocation s.
Written(f, s) == [fs EXCEPT ![f] = s]

\* ---- getFFmpeg / loadFFmpeg
\* Which of the three branches of getFFmpeg() a call takes.
GetFFmpegNoJoin ==
  IF ffmpeg # 0 /\ ffmpegLoaded THEN "cached" ELSE "load"

GetFFmpegBranch ==
  IF ffmpeg # 0 /\ ffmpegLoaded THEN "cached"
  ELSE IF loadingPromise # 0 THEN "join"
  ELSE "load"

\* The module state loadFFmpeg() leaves when ffmpeg.load() settles.
AfterLoadKeepPromise(ok, lp, loaded) ==
  [loaded |-> IF ok THEN TRUE ELSE loaded, promise |-> IF ok THEN 0 ELSE lp]

AfterLoad(ok, lp, loaded) ==
  [loaded |-> IF ok THEN TRUE ELSE loaded, promise |-> 0]

\* Where the control goes when the try block is left with error e
\* ("none" = normal return): always into the finally block.
FinallyPcSkipOnError(kind, e) ==
  IF e = "none" THEN (IF kind = "frames" THEN "clFrame" ELSE "clean") ELSE "done"

FinallyPc(kind, e) == IF kind = "frames" THEN "clFrame" ELSE "clean"

\* `lastFFmpegError || 'Unknown error ...'` (lines 312, 553)
ErrorDetail(e) ==
  IF e = 0 THEN [unknown |-> TRUE, line |-> 0] ELSE [unknown |-> FALSE, line |-> e]

\* An invocation leaves its try block; the error of a non-zero result
\* carries the detail.
LeaveTry(s, e) ==
  inv' = [inv EXCEPT ![s].pc = FinallyPc(inv[s].kind, e), ![s].i = 0, ![s].err = e,
                     ![s].detail = IF e = "nonzero" THEN ErrorDetail(lastFFmpegError)
                                   ELSE NoDetail]

\* The onProgress argument of a call: the editor passes the updateProgress
\* closure of its conversion to createVideoFromFrames ("cur" for the
\* conversion that gen and calls follow, "old" for any other one);
\* runConversion takes no callback.
OnProgressArg(kind) ==
  IF kind = "frames" THEN (IF gen.pc = "returned" THEN "cur" ELSE "old") ELSE "none"

\* A call made through the callback cb reaches the followed conversion's
\* updateProgress only when cb is its closure.
Deliver(cb, call) == calls' = IF cb = "cur" THEN Append(calls, call) ELSE calls

\* An onProgress call of the encoding stage.
EncodingCall(percent, source, fraction) ==
  [current |-> percent, total |-> 100, stage |-> "Encoding video",
   pushed |-> 0, source |-> source, fraction |-> fraction]

\* History: the engine operations of the followed conversion's
\* createVideoFromFrames invocation, each <<what, name>>, in the order in
\* which they are made.
LogOps(s, made) == ops' = IF inv[s].cb = "cur" THEN ops \o made ELSE ops
LogOp(s, what, name) == LogOps(s, <<(<<what, name>>)>>)

keepLog == UNCHANGED <<lastFFmpegError, nLog>>
keepCallback == UNCHANGED <<currentProgressCallback, nProg, calls>>

\* A call of createVideoFromFrames / runConversion: runs up to `await getFFmpeg()`.
Invoke(s, kind, image) ==
  /\ inv[s].pc \in {"idle", "done"}
  /\ kind \in SlotKinds(s)
  /\ image \in (IF kind = "frames" THEN {FALSE} ELSE BOOLEAN)
  /\ LET b == GetFFmpegBranch IN
     \/ /\ b = "cached"
        /\ inv' = [inv EXCEPT ![s] = [IdleInv EXCEPT !.kind = kind, !.pc = "getff",
                                        !.ff = ffmpeg, !.img = image,
                                        !.cb = OnProgressArg(kind)]]
        /\ UNCHANGED <<ffmpeg, ffmpegLoaded, loadingPromise, nLoads, promState, promValue>>
     \/ /\ b = "join"
        /\ inv' = [inv EXCEPT ![s] = [IdleInv EXCEPT !.kind = kind, !.pc = "getff",
                                        !.wait = loadingPromise, !.img = image,
                                        !.cb = OnProgressArg(kind)]]
        /\ UNCHANGED <<ffmpeg, ffmpegLoaded, loadingPromise, nLoads, promState, promValue>>
     \/ /\ b = "load"
        /\ nLoads < MaxLoads
        /\ nLoads' = nLoads + 1
        /\ ffmpeg' = nLoads + 1
        /\ loadingPromise' = nLoads + 1
        /\ promState' = [promState EXCEPT ![nLoads + 1] = "pending"]
        /\ inv' = [inv EXCEPT ![s] = [IdleInv EXCEPT !.kind = kind, !.pc = "getff",
                                        !.wait = nLoads + 1, !.img = image,
                                        !.cb = OnProgressArg(kind)]]
        /\ UNCHANGED <<ffmpegLoaded, promValue>>
  /\ ops' = IF OnProgressArg(kind) = "cur" THEN <<>> ELSE ops
  /\ gen' = IF kind = "frames" /\ gen.pc = "returned" THEN [gen EXCEPT !.pc = "encoding"]
            ELSE gen
  /\ keepLog /\ keepCallback
  /\ UNCHANGED <<fs, ed, conv, post, app>>

\* `await ffmpeg.load(...)` of the p-th loadFFmpeg() settles.
LoadSettle(p, ok) ==
  /\ p \in Promises
  /\ promState[p] = "pending"
  /\ LET a == AfterLoad(ok, loadingPromise, ffmpegLoaded) IN
       /\ ffmpegLoaded' = a.loaded
       /\ loadingPromise' = a.promise
  /\ promState' = [promState EXCEPT ![p] = IF ok THEN "resolved" ELSE "rejected"]
  /\ promValue' = [promValue EXCEPT ![p] = IF ok THEN ffmpeg ELSE 0]
  /\ keepLog /\ keepCallback
  /\ UNCHANGED <<ffmpeg, nLoads, fs, inv, ops, gen, ed, conv, post, app>>

\* `const ff = await getFFmpeg()` resumes in invocation s; with the engine
\* in hand `lastFFmpegError = ''` is done before the try block is entered.
ResumeGetFF(s) ==
  /\ inv[s].pc = "getff"
  /\ \/ /\ inv[s].wait = 0
        /\ inv' = [inv EXCEPT ![s].pc = IF inv[s].kind = "frames" THEN "preFrame" ELSE "preClean"]
        /\ lastFFmpegError' = 0
     \/ /\ inv[s].wait # 0
        /\ promState[inv[s].wait] = "resolved"
        /\ inv' = [inv EXCEPT ![s].pc = IF inv[s].kind = "frames" THEN "preFrame" ELSE "preClean",
                               ![s].ff = promValue[inv[s].wait]]
        /\ lastFFmpegError' = 0
     \/ /\ inv[s].wait # 0
        /\ promState[inv[s].wait] = "rejected"
        /\ inv' = [inv EXCEPT ![s].pc = "done", ![s].err = "load"]
        /\ lastFFmpegError' = lastFFmpegError
  /\ UNCHANGED nLog /\ keepCallback
  /\ UNCHANGED <<ffmpeg, ffmpegLoaded, loadingPromise, nLoads, promState, promValue, fs,
                 ops, gen, ed, conv, post, app>>


\* ---- createVideoFromFrames(frames, audioFile, fps, audioExt, onProgress)
keepEngine == UNCHANGED <<ffmpeg, ffmpegLoaded, loadingPromise, nLoads, promState, promValue>>
keepEditor == UNCHANGED <<gen, ed, conv, post, app>>

\* "Clean up any existing files": one deleteFile per frame name, errors ignored.
CVPreFrame(s) ==
  /\ inv[s].pc = "preFrame"
  /\ fs' = Deleted(FrameName(inv[s].i))
  /\ inv' = [inv EXCEPT ![s].i = IF inv[s].i + 1 = NumFrames THEN 0 ELSE inv[s].i + 1,
                         ![s].pc = IF inv[s].i + 1 = NumFrames THEN "preAudio" ELSE "preFrame"]
  /\ LogOp(s, "delete", FrameName(inv[s].i))
  /\ keepLog /\ keepCallback
  /\ keepEngine /\ keepEditor

\* try { await deleteFile(audio); await deleteFile(output) } catch {}: first await.
CVPreAudio(s) ==
  /\ inv[s].pc = "preAudio"
  /\ fs' = Deleted(AudioName)
  /\ inv' = [inv EXCEPT ![s].pc = IF DeleteThrows(AudioName) THEN "wrFrame" ELSE "preOut"]
  /\ LogOp(s, "delete", AudioName)
  /\ keepLog /\ keepCallback
  /\ keepEngine /\ keepEditor

\* ... second await of the same try.
CVPreOut(s) ==
  /\ inv[s].pc = "preOut"
  /\ fs' = Deleted(OutputName)
  /\ inv' = [inv EXCEPT ![s].pc = "wrFrame"]
  /\ LogOp(s, "delete", OutputName)
  /\ keepLog /\ keepCallback
  /\ keepEngine /\ keepEditor

\* fetchFile(frames[i]) and writeFile(frame_i): either may throw.
CVWriteFrame(s, ok) ==
  /\ inv[s].pc = "wrFrame"
  /\ IF ok
       THEN /\ fs' = Written(FrameName(inv[s].i), s)
            /\ inv' = [inv EXCEPT ![s].i = IF inv[s].i + 1 = NumFrames THEN 0 ELSE inv[s].i + 1,
                                   ![s].pc = IF inv[s].i + 1 = NumFrames THEN "wrAudio" ELSE "wrFrame"]
       ELSE /\ fs' = fs
            /\ LeaveTry(s, "write")
  /\ IF ok THEN LogOp(s, "write", FrameName(inv[s].i)) ELSE UNCHANGED ops
  /\ keepLog /\ keepCallback
  /\ keepEngine /\ keepEditor

\* fetchFile(audioFile) and writeFile(audio.<ext>); then (lines 518-526)
\* the callback is registered, onProgress(0, 100, 'Encoding video') is
\* called and the encode command is started.
CVWriteAudio(s, ok) ==
  /\ inv[s].pc = "wrAudio"
  /\ inv[s].kind = "frames"
  /\ IF ok
       THEN /\ fs' = Written(AudioName, s)
            /\ inv' = [inv EXCEPT ![s].pc = "exec"]
            /\ LogOps(s, <<(<<"write", AudioName>>), (<<"exec", OutputName>>)>>)
            /\ currentProgressCallback' = IF inv[s].cb = "none" THEN "null" ELSE inv[s].cb
            /\ Deliver(inv[s].cb, EncodingCall(0, "orchestrator", Q(0, 1)))
       ELSE /\ fs' = fs
            /\ LeaveTry(s, "write")
            /\ UNCHANGED <<ops, currentProgressCallback, calls>>
  /\ UNCHANGED nProg /\ keepLog
  /\ keepEngine /\ keepEditor

\* The engine can only report result 0 when the inputs of the command exist.
InputsPresent(kind) ==
  IF kind = "frames"
    THEN (\A f \in FrameNames : fs[f] # 0) /\ fs[AudioName] # 0
    ELSE fs[AudioName] # 0 /\ fs[ImageName] # 0

\* `await ff.exec([...])` settles: result 0, a non-zero result, or an exception.
\* wr: whether the engine created output.mp4 (always when the result is 0).
ExecSettles(s, outcome, wr) ==
  /\ outcome \in {"zero", "nonzero", "throw"}
  /\ outcome = "zero" => (wr /\ InputsPresent(inv[s].kind))
  /\ fs' = IF wr THEN Written(OutputName, s) ELSE fs
  /\ IF outcome = "zero"
       THEN inv' = [inv EXCEPT ![s].pc = "read"]
       ELSE LeaveTry(s, IF outcome = "nonzero" THEN "nonzero" ELSE "execThrow")

\* The encode command of createVideoFromFrames settles; when it returns
\* (lines 543-555) the callback is cleared and onProgress(100, 100,
\* 'Encoding video') is called before the result is looked at; when it
\* throws the callback stays registered.
CVExec(s, outcome, wr) ==
  /\ inv[s].pc = "exec"
  /\ inv[s].kind = "frames"
  /\ ExecSettles(s, outcome, wr)
  /\ LogOp(s, "result", <<outcome, <<>>>>)
  /\ IF outcome = "throw"
       THEN UNCHANGED <<currentProgressCallback, calls>>
       ELSE /\ currentProgressCallback' = "null"
            /\ Deliver(inv[s].cb, EncodingCall(100, "orchestrator", Q(1, 1)))
  /\ UNCHANGED nProg /\ keepLog
  /\ keepEngine /\ keepEditor

\* ---- engine events
\* A log line of a running command: what the 'log' listener looks for.
LogMessages == [error : BOOLEAN, failed : BOOLEAN]

\* A command is running in the engine.
CommandRunning == \E s \in Slots : inv[s].pc \in {"exec", "mkImage"}

\* The 'log' listener (lines 208-214): a line with 'Error' or 'failed' in it
\* becomes lastFFmpegError.  History: the line is the latest one captured
\* during every invocation in progress.
EngineLog(msg) ==
  /\ CommandRunning
  /\ msg \in LogMessages
  /\ IF msg.error \/ msg.failed
       THEN /\ nLog < MaxLog
            /\ nLog' = nLog + 1
            /\ lastFFmpegError' = nLog + 1
            /\ inv' = [s \in Slots |->
                         IF inv[s].pc \in {"idle", "done"} THEN inv[s]
                         ELSE [inv[s] EXCEPT !.seen = nLog + 1]]
       ELSE UNCHANGED <<nLog, lastFFmpegError, inv>>
  /\ UNCHANGED <<fs, ops>> /\ keepCallback
  /\ keepEngine /\ keepEditor

\* Progress fractions the engine reports: one below 0, 1/8 and 1.
Fractions == {<<-1, 2>>, <<1, 8>>, <<1, 1>>}

\* Math.round(progress * 100), for progress >= 0
PercentTruncated(progress) == QFloor(QMul(progress, Q(100, 1)))

Percent(progress) ==
  LET x == QMul(progress, Q(100, 1)) IN (2 * x[1] + x[2]) \div (2 * x[2])

\* The 'progress' listener (lines 216-225): with a callback registered and
\* progress >= 0 the callback is called with the rounded percentage.
EngineProgress(progress) ==
  /\ CommandRunning
  /\ progress \in Fractions
  /\ nProg < MaxProgress
  /\ nProg' = nProg + 1
  /\ IF currentProgressCallback # "null" /\ ~QLess(progress, Q(0, 1))
       THEN Deliver(currentProgressCallback,
                    EncodingCall(Percent(progress), "engine", progress))
       ELSE UNCHANGED calls
  /\ UNCHANGED <<fs, inv, ops, currentProgressCallback>> /\ keepLog
  /\ keepEngine /\ keepEditor

\* `await ff.readFile('output.mp4')`, then the Blob is returned.
ReadSettles(s, ok) ==
  /\ ok => fs[OutputName] # 0
  /\ fs' = fs
  /\ LeaveTry(s, IF ok THEN "none" ELSE "read")

CVRead(s, ok) ==
  /\ inv[s].pc = "read"
  /\ inv[s].kind = "frames"
  /\ ReadSettles(s, ok)
  /\ LogOp(s, "read", OutputName)
  /\ keepLog /\ keepCallback
  /\ keepEngine /\ keepEditor

\* finally: one deleteFile per frame, each in its own try/catch.
CVCleanFrame(s) ==
  /\ inv[s].pc = "clFrame"
  /\ fs' = Deleted(FrameName(inv[s].i))
  /\ inv' = [inv EXCEPT ![s].i = IF inv[s].i + 1 = NumFrames THEN 0 ELSE inv[s].i + 1,
                         ![s].pc = IF inv[s].i + 1 = NumFrames THEN "clAudio" ELSE "clFrame"]
  /\ LogOp(s, "delete", FrameName(inv[s].i))
  /\ keepLog /\ keepCallback
  /\ keepEngine /\ keepEditor

\* finally: await deleteFile(audio); await deleteFile(output) share ONE try:
\* when the first throws the second is skipped and the function settles.
CVCleanAudio(s) ==
  /\ inv[s].pc = "clAudio"
  /\ fs' = Deleted(AudioName)
  /\ inv' = [inv EXCEPT ![s].pc = IF DeleteThrows(AudioName) THEN "done" ELSE "clOut"]
  /\ LogOp(s, "delete", AudioName)
  /\ keepLog /\ keepCallback
  /\ keepEngine /\ keepEditor

CVCleanOut(s) ==
  /\ inv[s].pc = "clOut"
  /\ fs' = Deleted(OutputName)
  /\ inv' = [inv EXCEPT ![s].pc = "done"]
  /\ LogOp(s, "delete", OutputName)
  /\ keepLog /\ keepCallback
  /\ keepEngine /\ keepEditor

\* ---- runConversion(preset, audioFile, imageFile, audioExt)
\* "Clean up any existing files first": each deleteFile in its own try/catch.
RCPreClean(s) ==
  /\ inv[s].pc = "preClean"
  /\ fs' = Deleted(SimpleFiles[inv[s].i + 1])
  /\ inv' = [inv EXCEPT ![s].i = IF inv[s].i + 1 = Len(SimpleFiles) THEN 0 ELSE inv[s].i + 1,
                         ![s].pc = IF inv[s].i + 1 = Len(SimpleFiles) THEN "wrAudio" ELSE "preClean"]
  /\ UNCHANGED ops /\ keepLog /\ keepCallback
  /\ keepEngine /\ keepEditor

RCWriteAudio(s, ok) ==
  /\ inv[s].pc = "wrAudio"
  /\ inv[s].kind = "simple"
  /\ IF ok
       THEN /\ fs' = Written(AudioName, s)
            /\ inv' = [inv EXCEPT ![s].pc = IF inv[s].img THEN "wrImage" ELSE "mkImage"]
       ELSE /\ fs' = fs
            /\ LeaveTry(s, "write")
  /\ UNCHANGED ops /\ keepLog /\ keepCallback
  /\ keepEngine /\ keepEditor

\* imageFile given: fetchFile and writeFile('image.jpg').
RCWriteImage(s, ok) ==
  /\ inv[s].pc = "wrImage"
  /\ IF ok
       THEN /\ fs' = Written(ImageName, s)
            /\ inv' = [inv EXCEPT ![s].pc = "exec"]
       ELSE /\ fs' = fs
            /\ LeaveTry(s, "write")
  /\ UNCHANGED ops /\ keepLog /\ keepCallback
  /\ keepEngine /\ keepEditor

\* no imageFile: exec(lavfi black background -> image.jpg); its result is not
\* looked at, only an exception leaves the try block.
RCMakeImage(s, throws, wr) ==
  /\ inv[s].pc = "mkImage"
  /\ fs' = IF wr THEN Written(ImageName, s) ELSE fs
  /\ IF throws
       THEN LeaveTry(s, "execThrow")
       ELSE inv' = [inv EXCEPT ![s].pc = "exec"]
  /\ UNCHANGED ops /\ keepLog /\ keepCallback
  /\ keepEngine /\ keepEditor

RCExec(s, outcome, wr) ==
  /\ inv[s].pc = "exec"
  /\ inv[s].kind = "simple"
  /\ ExecSettles(s, outcome, wr)
  /\ UNCHANGED ops /\ keepLog /\ keepCallback
  /\ keepEngine /\ keepEditor

RCRead(s, ok) ==
  /\ inv[s].pc = "read"
  /\ inv[s].kind = "simple"
  /\ ReadSettles(s, ok)
  /\ UNCHANGED ops /\ keepLog /\ keepCallback
  /\ keepEngine /\ keepEditor

\* finally: each of the three deleteFile calls in its own try/catch.
RCClean(s) ==
  /\ inv[s].pc = "clean"
  /\ fs' = Deleted(SimpleFiles[inv[s].i + 1])
  /\ inv' = [inv EXCEPT ![s].i = IF inv[s].i + 1 = Len(SimpleFiles) THEN 0 ELSE inv[s].i + 1,
                         ![s].pc = IF inv[s].i + 1 = Len(SimpleFiles) THEN "done" ELSE "clean"]
  /\ UNCHANGED ops /\ keepLog /\ keepCallback
  /\ keepEngine /\ keepEditor

\* ---- the engine specification
\* The module as it is imported: no engine.
InitLoader ==
  /\ ffmpeg = 0
  /\ ffmpegLoaded = FALSE
  /\ loadingPromise = 0
  /\ nLoads = 0
  /\ promState = [p \in Promises |-> "none"]
  /\ promValue = [p \in Promises |-> 0]

\* No invocation yet, an empty engine filesystem.
InitInvocations ==
  /\ fs = [f \in Files |-> 0]
  /\ inv = [s \in Slots |-> IdleInv]
  /\ lastFFmpegError = 0
  /\ nLog = 0
  /\ currentProgressCallback = "null"
  /\ nProg = 0
  /\ ops = <<>>

InitEngine == InitLoader /\ InitInvocations

\* No generateWaveformFrames call is followed.
GenIdle == gen = IdleGen /\ calls = <<>>

Init == InitEngine /\ EditorIdle /\ GenIdle /\ NavIdle

Next ==
  \/ \E s \in Slots, k \in {"frames", "simple"}, im \in BOOLEAN : Invoke(s, k, im)
  \/ \E p \in Promises, ok \in BOOLEAN : LoadSettle(p, ok)
  \/ \E s \in Slots : ResumeGetFF(s)
  \/ \E s \in Slots : CVPreFrame(s)
  \/ \E s \in Slots : CVPreAudio(s)
  \/ \E s \in Slots : CVPreOut(s)
  \/ \E s \in Slots, ok \in BOOLEAN : CVWriteFrame(s, ok)
  \/ \E s \in Slots, ok \in BOOLEAN : CVWriteAudio(s, ok)
  \/ \E s \in Slots, o \in {"zero", "nonzero", "throw"}, wr \in BOOLEAN : CVExec(s, o, wr)
  \/ \E s \in Slots, ok \in BOOLEAN : CVRead(s, ok)
  \/ \E s \in Slots : CVCleanFrame(s)
  \/ \E s \in Slots : CVCleanAudio(s)
  \/ \E s \in Slots : CVCleanOut(s)
  \/ \E s \in Slots : RCPreClean(s)
  \/ \E s \in Slots, ok \in BOOLEAN : RCWriteAudio(s, ok)
  \/ \E s \in Slots, ok \in BOOLEAN : RCWriteImage(s, ok)
  \/ \E s \in Slots, t \in BOOLEAN, wr \in BOOLEAN : RCMakeImage(s, t, wr)
  \/ \E s \in Slots, o \in {"zero", "nonzero", "throw"}, wr \in BOOLEAN : RCExec(s, o, wr)
  \/ \E s \in Slots, ok \in BOOLEAN : RCRead(s, ok)
  \/ \E s \in Slots : RCClean(s)

Spec == Init /\ [][Next]_vars


(***************************************************************************)
(*    EDITOR: src/components/SceneEditor.ts, BotAdventureApp.postToBluesky *)
(***************************************************************************)
keepEngineAll == UNCHANGED <<ffmpeg, ffmpegLoaded, loadingPromise, nLoads, promState,
                             promValue, fs, inv, lastFFmpegError, nLog,
                             currentProgressCallback, nProg, ops, gen, calls, app>>

\* The comparison of schedulePreviewRefresh (lines 296-301): current inputs
\* against lastVideoSettings.
IsStaleIgnoringChoices(e) ==
  \/ e.imageText # e.lastVideoSettings.imageText
  \/ e.lastBackgroundImage # e.lastVideoSettings.backgroundImage
  \/ e.useWaveform # e.lastVideoSettings.useWaveform

IsStale(e) ==
  \/ e.imageText # e.lastVideoSettings.imageText
  \/ e.choices # e.lastVideoSettings.choices
  \/ e.lastBackgroundImage # e.lastVideoSettings.backgroundImage
  \/ e.useWaveform # e.lastVideoSettings.useWaveform

\* schedulePreviewRefresh(): marks the video outdated when the inputs differ
\* from the snapshot (never clears the mark), and (re)arms the 500 ms timer.
SchedulePreviewRefresh(e) ==
  [e EXCEPT !.videoPreviewOutdated =
              IF e.audioFile # NoAudio /\ e.convertedVideoBlob.present /\ IsStale(e)
                THEN TRUE ELSE @,
            !.previewRefreshTimer = TRUE]

\* removeBackgroundImage()
RemoveBackgroundImage(e) ==
  SchedulePreviewRefresh([e EXCEPT !.lastBackgroundImage = ""])

\* removeAudioFile()
RemoveAudioFile(e) ==
  SchedulePreviewRefresh([e EXCEPT !.audioFile = NoAudio, !.convertedVideoBlob = NoBlob])

\* clearForm(): empties the text areas (no input event is raised), then
\* removeBackgroundImage(), then removeAudioFile().
ClearForm(e) ==
  RemoveAudioFile(RemoveBackgroundImage([e EXCEPT !.imageText = "", !.choices = ""]))

\* ---- user events
\* 'input' listener of #image-text
EditImageText(v) ==
  /\ v \in Texts /\ v # ed.imageText
  /\ ed' = SchedulePreviewRefresh([ed EXCEPT !.imageText = v])
  /\ UNCHANGED <<conv, post>> /\ keepEngineAll

\* 'input' listener of #choices
EditChoices(v) ==
  /\ v \in Texts /\ v # ed.choices
  /\ ed' = SchedulePreviewRefresh([ed EXCEPT !.choices = v])
  /\ UNCHANGED <<conv, post>> /\ keepEngineAll

\* 'change' listener of #use-waveform-viz
ToggleWaveform ==
  /\ ed' = IF ed.audioFile # NoAudio
             THEN SchedulePreviewRefresh([ed EXCEPT !.useWaveform = ~@,
                                                    !.videoPreviewOutdated = TRUE])
             ELSE [ed EXCEPT !.useWaveform = ~@]
  /\ UNCHANGED <<conv, post>> /\ keepEngineAll

\* handleBackgroundImageUpload: the FileReader's onload callback
BackgroundLoaded(b) ==
  /\ b \in Backgrounds \ {""}
  /\ ed' = SchedulePreviewRefresh(
             [ed EXCEPT !.lastBackgroundImage = b,
                        !.videoPreviewOutdated = IF ed.audioFile # NoAudio THEN TRUE ELSE @])
  /\ UNCHANGED <<conv, post>> /\ keepEngineAll

\* click on #remove-background-button (shown while a background is set)
RemoveBackgroundClick ==
  /\ ed.lastBackgroundImage # ""
  /\ ed' = RemoveBackgroundImage(ed)
  /\ UNCHANGED <<conv, post>> /\ keepEngineAll

\* handleAudioFileUpload(file)
HandleAudioFileUpload(a) ==
  /\ a \in AudioFiles
  /\ ed' = SchedulePreviewRefresh([ed EXCEPT !.audioFile = a,
                                             !.convertedVideoBlob = NoBlob,
                                             !.videoPreviewOutdated = TRUE])
  /\ UNCHANGED <<conv, post>> /\ keepEngineAll

\* click on #remove-audio-button (shown while an audio file is set)
RemoveAudioClick ==
  /\ ed.audioFile # NoAudio
  /\ ed' = RemoveAudioFile(ed)
  /\ UNCHANGED <<conv, post>> /\ keepEngineAll

\* click on #clear-editor
ClearFormClick ==
  /\ ed' = ClearForm(ed)
  /\ UNCHANGED <<conv, post>> /\ keepEngineAll

\* ---- the preview pane
\* updatePreview(), run by the refresh timer: with an audio file it shows the
\* cached video if there is one and it is not outdated, else the
\* "Generate Video Preview" button; without audio it shows the image or text
\* preview, which carries no conversion control.
UpdatePreview ==
  /\ ed.previewRefreshTimer
  /\ ed' = [ed EXCEPT !.previewRefreshTimer = FALSE,
              !.pane = IF ed.audioFile = NoAudio THEN "other"
                       ELSE IF ed.convertedVideoBlob.present /\ ~ed.videoPreviewOutdated
                         THEN "video" ELSE "generate"]
  /\ UNCHANGED <<conv, post>> /\ keepEngineAll

\* ---- convertAudioToVideo()
\* Lines 747-753 and 826: the guard, the flag, the progress pane and the read
\* of the waveform checkbox, up to the first await (the dynamic import).
ConvertAudioToVideoUnguarded ==
  IF ed.audioFile = NoAudio
    THEN UNCHANGED <<ed, conv>>
    ELSE /\ ed' = [ed EXCEPT !.isConvertingAudio = TRUE, !.pane = "progress"]
         /\ conv' = [IdleConv EXCEPT !.pc = "import", !.useWaveformViz = ed.useWaveform]

ConvertAudioToVideo ==
  IF ed.audioFile = NoAudio \/ ed.isConvertingAudio
    THEN UNCHANGED <<ed, conv>>
    ELSE /\ ed' = [ed EXCEPT !.isConvertingAudio = TRUE, !.pane = "progress"]
         /\ conv' = [IdleConv EXCEPT !.pc = "import", !.useWaveformViz = ed.useWaveform]

\* click on "Generate Video Preview" (rendered by updatePreview)
GenerateClick ==
  /\ ed.pane = "generate"
  /\ ConvertAudioToVideo
  /\ UNCHANGED post /\ keepEngineAll

\* click on "Try Again" (rendered by the catch block)
TryAgainClick ==
  /\ ed.pane = "error"
  /\ ConvertAudioToVideo
  /\ UNCHANGED post /\ keepEngineAll

\* The imports are done.  Waveform branch: image text, choices and background
\* are read (836-846); simple branch: the background is read (882).  With a
\* background the next await is its fetch, otherwise this.audioFile is read
\* and generateWaveformFrames / createVideoFromAudio is called.
ConvImported ==
  /\ conv.pc = "import"
  /\ LET c1 == IF conv.useWaveformViz
                 THEN [conv EXCEPT !.sceneText = ed.imageText, !.choicesText = ed.choices,
                                   !.bg = ed.lastBackgroundImage]
                 ELSE [conv EXCEPT !.bg = ed.lastBackgroundImage]
     IN conv' = IF ed.lastBackgroundImage # ""
                  THEN [c1 EXCEPT !.pc = "fetchBg"]
                  ELSE IF conv.useWaveformViz
                    THEN [c1 EXCEPT !.pc = "frames", !.framesAudio = ed.audioFile]
                    ELSE [c1 EXCEPT !.pc = "encode", !.audio = ed.audioFile]
  /\ UNCHANGED <<ed, post>> /\ keepEngineAll

\* fetch(lastBackgroundImage) and response.blob() are done.
ConvBgFetched ==
  /\ conv.pc = "fetchBg"
  /\ conv' = IF conv.useWaveformViz
               THEN [conv EXCEPT !.pc = "frames", !.framesAudio = ed.audioFile]
               ELSE [conv EXCEPT !.pc = "encode", !.audio = ed.audioFile]
  /\ UNCHANGED <<ed, post>> /\ keepEngineAll

\* What the catch and finally blocks (912-951) do to the editor.
FailureEffectDropsCache(e) ==
  [e EXCEPT !.pane = "error", !.isConvertingAudio = FALSE, !.convertedVideoBlob = NoBlob]

FailureEffect(e) ==
  [e EXCEPT !.pane = "error", !.isConvertingAudio = FALSE]

\* generateWaveformFrames resolved: this.audioFile.name is read (a TypeError
\* when the audio was removed meanwhile) and createVideoFromFrames is called
\* with this.audioFile.
ConvFramesDone ==
  /\ conv.pc = "frames"
  /\ conv.framesAudio # NoAudio
  /\ IF ed.audioFile = NoAudio
       THEN /\ ed' = FailureEffect(ed)
            /\ conv' = IdleConv
       ELSE /\ conv' = [conv EXCEPT !.pc = "encode", !.audio = ed.audioFile]
            /\ ed' = ed
  /\ UNCHANGED post /\ keepEngineAll

\* Lines 897-906: the snapshot is taken from the inputs as they are now.
SnapshotNow(e) ==
  [imageText |-> e.imageText, choices |-> e.choices,
   backgroundImage |-> e.lastBackgroundImage, useWaveform |-> e.useWaveform]

\* createVideoFromFrames / createVideoFromAudio resolved: lines 868/891-910
\* and the finally block.
ConvSucceeds ==
  /\ conv.pc = "encode"
  /\ conv.audio # NoAudio
  /\ ed' = [SchedulePreviewRefresh(
              [ed EXCEPT !.convertedVideoBlob = VideoBlob,
                         !.lastVideoSettings = SnapshotNow(ed),
                         !.videoPreviewOutdated = FALSE])
            EXCEPT !.isConvertingAudio = FALSE]
  /\ conv' = IdleConv
  /\ UNCHANGED post /\ keepEngineAll

\* Any awaited step rejects: the catch block shows the error with "Try Again".
ConvFails ==
  /\ conv.pc \in {"import", "fetchBg", "frames", "encode"}
  /\ ed' = FailureEffect(ed)
  /\ conv' = IdleConv
  /\ UNCHANGED post /\ keepEngineAll

\* ---- BotAdventureApp.postToBluesky(postText, imageText, choices, backgroundImage)
\* Click on #post-button of an authenticated user with something to post
\* (lines 520-558).  With an audio file: the cached video is taken when there
\* is one, else the conversion is prepared; without audio: the image or text
\* path, which goes straight to the remote calls.
PostClick ==
  /\ ~ed.postDisabled
  /\ post.pc = "idle"
  /\ ed' = [ed EXCEPT !.postDisabled = TRUE]
  /\ post' = IF ed.audioFile # NoAudio
               THEN IF ed.convertedVideoBlob.present
                 THEN [pc |-> "upload", cached |-> TRUE]
                 ELSE [pc |-> "prepare", cached |-> FALSE]
               ELSE [pc |-> "upload", cached |-> FALSE]
  /\ UNCHANGED conv /\ keepEngineAll

\* import('./utils/audioToVideo') and the fetch of the background passed as
\* argument are done (560-575); createVideoFromAudio(audioFile, ...) is called
\* with the audio file taken at the click (578).
PostPrepared ==
  /\ post.pc = "prepare"
  /\ post' = [post EXCEPT !.pc = "convert"]
  /\ UNCHANGED <<ed, conv>> /\ keepEngineAll

\* createVideoFromAudio(audioFile, backgroundImageFile) resolved.
PostConverted ==
  /\ post.pc = "convert"
  /\ post' = [post EXCEPT !.pc = "upload"]
  /\ UNCHANGED <<ed, conv>> /\ keepEngineAll

\* uploadVideo / createPost / getPostThread succeeded: the form is cleared and
\* the finally block re-enables the post button.
PostSucceeds ==
  /\ post.pc = "upload"
  /\ ed' = [ClearForm(ed) EXCEPT !.postDisabled = FALSE]
  /\ post' = IdlePost
  /\ UNCHANGED conv /\ keepEngineAll

\* Any awaited step of postToBluesky rejects: status message, button re-enabled.
PostFails ==
  /\ post.pc \in {"prepare", "convert", "upload"}
  /\ ed' = [ed EXCEPT !.postDisabled = FALSE]
  /\ post' = IdlePost
  /\ UNCHANGED conv /\ keepEngineAll

\* ---- the editor specification
\* The editor after initialize(): the saved scene data is loaded into the
\* inputs and the first updatePreview is scheduled.
InitEditor ==
  /\ InitEngine
  /\ \E t \in Texts, c \in Texts, b \in Backgrounds, w \in BOOLEAN :
       ed = NewEditor(t, c, b, w)
  /\ conv = IdleConv
  /\ post = IdlePost
  /\ GenIdle
  /\ NavIdle

NextEditor ==
  \/ \E v \in Texts : EditImageText(v)
  \/ \E v \in Texts : EditChoices(v)
  \/ ToggleWaveform
  \/ \E b \in Backgrounds : BackgroundLoaded(b)
  \/ RemoveBackgroundClick
  \/ \E a \in AudioFiles : HandleAudioFileUpload(a)
  \/ RemoveAudioClick
  \/ ClearFormClick
  \/ UpdatePreview
  \/ GenerateClick
  \/ TryAgainClick
  \/ ConvImported
  \/ ConvBgFetched
  \/ ConvFramesDone
  \/ ConvSucceeds
  \/ ConvFails
  \/ PostClick
  \/ PostPrepared
  \/ PostConverted
  \/ PostSucceeds
  \/ PostFails

SpecEditor == InitEditor /\ [][NextEditor]_vars

\* ---- the conversion and the audio file
\* The editor with its audio controls, the preview pane and
\* convertAudioToVideo alone.  Every await of a running convertAudioToVideo
\* settles: the promise resolves or rejects.
InitConvert ==
  /\ InitEngine
  /\ \E b \in Backgrounds, w \in BOOLEAN : ed = NewEditor("", "", b, w)
  /\ conv = IdleConv
  /\ post = IdlePost
  /\ GenIdle
  /\ NavIdle

ConvAwaitSettles ==
  \/ ConvImported
  \/ ConvBgFetched
  \/ ConvFramesDone
  \/ ConvSucceeds
  \/ ConvFails

NextConvert ==
  \/ \E a \in AudioFiles : HandleAudioFileUpload(a)
  \/ RemoveAudioClick
  \/ ToggleWaveform
  \/ UpdatePreview
  \/ GenerateClick
  \/ TryAgainClick
  \/ ConvImported
  \/ ConvBgFetched
  \/ ConvFramesDone
  \/ ConvSucceeds
  \/ ConvFails

SpecConvert == InitConvert /\ [][NextConvert]_vars /\ WF_vars(ConvAwaitSettles)

(***************************************************************************)
(*        THE FRAME GENERATOR AND THE WAVEFORM CONVERSION AS SYSTEMS       *)
(***************************************************************************)
\* ---- the frame generator specification: one generateWaveformFrames call
InitFrames ==
  /\ InitEngine
  /\ EditorIdle
  /\ gen \in GenInputs
  /\ calls = <<>>
  /\ NavIdle

NextFrames ==
  \/ GenAnalyzed
  \/ GenBgLoaded
  \/ GenTextRendered
  \/ GenFrame
  \/ GenRejects

SpecFrames == InitFrames /\ [][NextFrames]_vars

\* ---- the waveform conversion specification
\* The module after one successful load.
InitLoaded ==
  /\ ffmpeg = 1
  /\ ffmpegLoaded = TRUE
  /\ loadingPromise = 0
  /\ nLoads = 1
  /\ promState = [p \in Promises |-> IF p = 1 THEN "resolved" ELSE "none"]
  /\ promValue = [p \in Promises |-> IF p = 1 THEN 1 ELSE 0]

\* The generateWaveformFrames calls of the editor (image and text left
\* aside, and with 3 bars to a frame: the encoder does not look into the
\* frames) whose result has the NumFrames frames of the encoder invocation;
\* of these, the ones with the shortest audio.
EncodeCandidates ==
  {g \in GenInputs :
     /\ g.cb /\ ~g.text /\ ~g.image.present /\ g.barWidth = <<240, 1>>
     /\ g.options = DefaultOptions /\ g.toBlob = "jpeg"
     /\ g.raw = Tone(Len(g.raw))
     /\ TotalFrames(Q(Len(g.raw), SampleRate), g.fps) = NumFrames}

EncodeInputs ==
  {g \in EncodeCandidates : \A h \in EncodeCandidates : Len(g.raw) <= Len(h.raw)}

\* The editor runs one conversion at a time (isConvertingAudio): the one
\* followed is over when generation failed or its encoder call has settled.
ConversionOver ==
  \/ gen.pc \in {"idle", "failed"}
  \/ gen.pc = "encoding" /\ inv[1].pc = "done"

\* SceneEditor.convertAudioToVideo, waveform branch, up to line 852: a new
\* updateProgress closure is made and generateWaveformFrames is called with
\* it.  From here on gen, calls and ops follow this conversion; a closure of the
\* conversion before is an old one.
GenBegin(g) ==
  /\ ConversionOver
  /\ g \in EncodeInputs
  /\ gen' = g
  /\ calls' = <<>>
  /\ ops' = <<>>
  /\ nProg' = 0
  /\ currentProgressCallback' = IF currentProgressCallback = "cur" THEN "old"
                                ELSE currentProgressCallback
  /\ inv' = [inv EXCEPT ![1].cb = IF @ = "cur" THEN "old" ELSE @]
  /\ keepEngine /\ keepLog
  /\ UNCHANGED <<fs, ed, conv, post, app>>

\* Line 868: createVideoFromFrames(frames, this.audioFile, fps, audioExt,
\* updateProgress) once generateWaveformFrames has returned.
EncodeFrames ==
  /\ gen.pc = "returned"
  /\ Invoke(1, "frames", FALSE)

\* postToBluesky, line 578: createVideoFromAudio -> runConversion.
PostConversion(image) == Invoke(2, "simple", image)

InitEncode ==
  /\ InitLoaded
  /\ InitInvocations
  /\ EditorIdle
  /\ GenIdle
  /\ NavIdle

NextEncode ==
  \/ \E g \in EncodeInputs : GenBegin(g)
  \/ GenAnalyzed
  \/ GenFrame
  \/ GenRejects
  \/ EncodeFrames
  \/ \E im \in BOOLEAN : PostConversion(im)
  \/ \E s \in Slots : ResumeGetFF(s)
  \/ \E s \in Slots : CVPreFrame(s)
  \/ \E s \in Slots : CVPreAudio(s)
  \/ \E s \in Slots : CVPreOut(s)
  \/ \E s \in Slots, ok \in BOOLEAN : CVWriteFrame(s, ok)
  \/ \E s \in Slots, ok \in BOOLEAN : CVWriteAudio(s, ok)
  \/ \E s \in Slots, o \in {"zero", "nonzero", "throw"}, wr \in BOOLEAN : CVExec(s, o, wr)
  \/ \E s \in Slots, ok \in BOOLEAN : CVRead(s, ok)
  \/ \E s \in Slots : CVCleanFrame(s)
  \/ \E s \in Slots : CVCleanAudio(s)
  \/ \E s \in Slots : CVCleanOut(s)
  \/ \E s \in Slots : RCPreClean(s)
  \/ \E s \in Slots, ok \in BOOLEAN : RCWriteAudio(s, ok)
  \/ \E s \in Slots, ok \in BOOLEAN : RCWriteImage(s, ok)
  \/ \E s \in Slots, t \in BOOLEAN, wr \in BOOLEAN : RCMakeImage(s, t, wr)
  \/ \E s \in Slots, o \in {"zero", "nonzero", "throw"}, wr \in BOOLEAN : RCExec(s, o, wr)
  \/ \E s \in Slots, ok \in BOOLEAN : RCRead(s, ok)
  \/ \E s \in Slots : RCClean(s)
  \/ \E fr \in Fractions : EngineProgress(fr)

SpecEncode == InitEncode /\ [][NextEncode]_vars

\* ---- the error capture specification: encoder invocations of both
\* callers on a loaded engine, with the engine's log lines
NextLog ==
  \/ \E s \in Slots, k \in {"frames", "simple"}, im \in BOOLEAN : Invoke(s, k, im)
  \/ \E s \in Slots : ResumeGetFF(s)
  \/ \E s \in Slots : CVPreFrame(s)
  \/ \E s \in Slots : CVPreAudio(s)
  \/ \E s \in Slots : CVPreOut(s)
  \/ \E s \in Slots, ok \in BOOLEAN : CVWriteFrame(s, ok)
  \/ \E s \in Slots, ok \in BOOLEAN : CVWriteAudio(s, ok)
  \/ \E s \in Slots, o \in {"zero", "nonzero", "throw"}, wr \in BOOLEAN : CVExec(s, o, wr)
  \/ \E s \in Slots, ok \in BOOLEAN : CVRead(s, ok)
  \/ \E s \in Slots : CVCleanFrame(s)
  \/ \E s \in Slots : CVCleanAudio(s)
  \/ \E s \in Slots : CVCleanOut(s)
  \/ \E s \in Slots : RCPreClean(s)
  \/ \E s \in Slots, ok \in BOOLEAN : RCWriteAudio(s, ok)
  \/ \E s \in Slots, ok \in BOOLEAN : RCWriteImage(s, ok)
  \/ \E s \in Slots, t \in BOOLEAN, wr \in BOOLEAN : RCMakeImage(s, t, wr)
  \/ \E s \in Slots, o \in {"zero", "nonzero", "throw"}, wr \in BOOLEAN : RCExec(s, o, wr)
  \/ \E s \in Slots, ok \in BOOLEAN : RCRead(s, ok)
  \/ \E s \in Slots : RCClean(s)
  \/ \E msg \in LogMessages : EngineLog(msg)

SpecLog == InitEncode /\ [][NextLog]_vars

(***************************************************************************)
(*     THREAD NAVIGATION: BotAdventureApp and components/ThreadNavigator   *)
(***************************************************************************)
keepPipeline == UNCHANGED <<ffmpeg, ffmpegLoaded, loadingPromise, nLoads, promState,
                            promValue, fs, inv, lastFFmpegError, nLog,
                            currentProgressCallback, nProg, ops, gen, calls,
                            ed, conv, post>>

Elements(seq) == {seq[i] : i \in 1..Len(seq)}
Without(seq, i) == SubSeq(seq, 1, i - 1) \o SubSeq(seq, i + 1, Len(seq))

\* renderThread: the navigator rebuilds the view from threadPath, unless the
\* path is empty.
RenderThread(a) ==
  [a EXCEPT !.view = IF Len(a.threadPath) > 0 THEN a.threadPath ELSE @]

\* selectPost up to its await: the new node is pushed and the fetch starts.
SelectPost(a, p) ==
  [a EXCEPT !.threadPath = Append(@, ThreadNode(p, <<>>, Len(@), NoPost)),
            !.pending = Append(@, p)]

\* resetThreadPath(index, post): slice(0, index + 1), new reply target, render.
ResetThreadPath(a, index, p) ==
  RenderThread([a EXCEPT
    !.threadPath = SubSeq(@, 1, IF index + 1 < Len(@) THEN index + 1 ELSE Len(@)),
    !.editingReplyTo = p])

\* fetchRepliesForPost after its await: the replies go to the node that is
\* last in threadPath now; a failed fetch is caught and stores nothing.
StoreReplies(a, p, ok) ==
  IF ok /\ Len(a.threadPath) > 0
    THEN [a EXCEPT !.threadPath[Len(a.threadPath)].replies = RepliesOf(p),
                   !.threadPath[Len(a.threadPath)].fetchedFor = p]
    ELSE a

\* The thread as loadExistingThread leaves it: the root post with its
\* replies, selected as the reply target and rendered.
LoadedApp ==
  RenderThread([NewApp EXCEPT
    !.threadPath = <<ThreadNode(RootPost, RepliesOf(RootPost), 0, RootPost)>>,
    !.editingReplyTo = RootPost])

\* A click on a reply card under the current post of the view.
ReplyCardClick(reply) ==
  /\ Len(app.view) > 0
  /\ reply \in Elements(app.view[Len(app.view)].replies)
  /\ Len(app.threadPath) < MaxPath
  /\ Len(app.pending) < MaxPending
  /\ app' = SelectPost(app, reply)
  /\ keepPipeline

\* The getPostThread call of a pending selectPost settles; the rest of
\* fetchRepliesForPost and of selectPost runs.
FetchSettles(i, ok) ==
  /\ i \in 1..Len(app.pending)
  /\ LET p == app.pending[i]
         a == StoreReplies(app, p, ok)
     IN app' = RenderThread([a EXCEPT !.editingReplyTo = p,
                                      !.pending = Without(@, i)])
  /\ keepPipeline

\* A click on a post of the view that is not the current one.
PostItemClick(pathIndex) ==
  /\ pathIndex \in 0..(Len(app.view) - 2)
  /\ app' = ResetThreadPath(app, pathIndex, app.view[pathIndex + 1].post)
  /\ keepPipeline

\* A click on a non-selected reply stub next to an earlier post of the view:
\* the path is reset to that post and the selection is scheduled.
StubClick(nodeIndex, reply) ==
  /\ nodeIndex \in 0..(Len(app.view) - 2)
  /\ reply \in Elements(app.view[nodeIndex + 1].replies)
  /\ reply # app.view[nodeIndex + 2].post
  /\ Len(app.timers) < MaxTimers
  /\ app' = [ResetThreadPath(app, nodeIndex, app.view[nodeIndex + 1].post)
               EXCEPT !.timers = Append(@, reply)]
  /\ keepPipeline

\* The oldest scheduled selection runs.
TimerFires ==
  /\ Len(app.timers) > 0
  /\ Len(app.threadPath) < MaxPath
  /\ Len(app.pending) < MaxPending
  /\ app' = SelectPost([app EXCEPT !.timers = Tail(@)], Head(app.timers))
  /\ keepPipeline

InitThread ==
  /\ InitEngine
  /\ EditorIdle
  /\ GenIdle
  /\ app = LoadedApp

NextThread ==
  \/ \E reply \in Posts : ReplyCardClick(reply)
  \/ \E i \in 1..MaxPending, ok \in BOOLEAN : FetchSettles(i, ok)
  \/ \E pathIndex \in 0..(MaxPath - 2) : PostItemClick(pathIndex)
  \/ \E nodeIndex \in 0..(MaxPath - 2), reply \in Posts : StubClick(nodeIndex, reply)
  \/ TimerFires

SpecThread == InitThread /\ [][NextThread]_vars

(***************************************************************************)
(*                        Properties of the engine                         *)
(***************************************************************************)
Pending == {p \in Promises : promState[p] = "pending"}

\* C1: a getFFmpeg() call made while a load is in flight receives the
\* in-flight promise and resolves to the same instance as every other caller;
\* at most one load is in flight at any time; and once a load has succeeded
\* no further load is started, every engine handle being that one instance.
C1_LoadMemoized ==
  /\ Cardinality(Pending) <= 1
  /\ \A s \in Slots :
       (inv[s].pc = "getff" /\ inv[s].wait # 0 /\ promState[inv[s].wait] = "pending")
         => loadingPromise = inv[s].wait
  /\ \A s \in Slots : inv[s].ff # 0 => (ffmpegLoaded /\ inv[s].ff = ffmpeg)
  /\ ffmpegLoaded => (ffmpeg = nLoads /\ loadingPromise = 0 /\ Pending = {})

\* Two callers that joined the same load both hold the same engine instance.
C1_Witness ==
  /\ inv[1].wait # 0 /\ inv[1].wait = inv[2].wait
  /\ inv[1].ff # 0 /\ inv[1].ff = inv[2].ff
  /\ inv[1].pc # "getff" /\ inv[2].pc # "getff"

\* The entries C2 speaks about: frames and audio for createVideoFromFrames,
\* audio, image and output for runConversion.
C2Files(kind) ==
  IF kind = "frames" THEN FrameNames \cup {AudioName}
  ELSE {AudioName, ImageName, OutputName}

\* C2: when the encode command returned a non-zero result, no entry written
\* by that call (frames and audio; for runConversion audio, image and output)
\* is left in the engine filesystem once the call has rejected.
C2_CleanupOnNonZero ==
  \A s \in Slots :
    (inv[s].pc = "done" /\ inv[s].err = "nonzero")
      => \A f \in C2Files(inv[s].kind) : fs[f] # s

\* A createVideoFromFrames call rejected on a non-zero result while the other
\* caller was running too, and a runConversion call rejected the same way.
C2_Witness ==
  /\ inv[1].pc = "done" /\ inv[1].err = "nonzero" /\ inv[1].kind = "frames"
  /\ inv[2].pc = "done" /\ inv[2].err = "nonzero"

\* C8: a failed load clears the memoized promise, so each new getFFmpeg()
\* call gets the loaded engine or a pending load, never a settled rejection;
\* isFFmpegReady() is true exactly when some load has succeeded.
C8_RetryAfterLoadFailure ==
  /\ [](/\ loadingPromise # 0 => promState[loadingPromise] = "pending"
        /\ ffmpegLoaded <=> (\E p \in Promises : promState[p] = "resolved"))
  /\ [][\A s \in Slots :
          (inv[s].pc # "getff" /\ inv'[s].pc = "getff")
            => \/ inv'[s].wait = 0 /\ inv'[s].ff # 0 /\ ffmpegLoaded
               \/ inv'[s].wait # 0 /\ promState'[inv'[s].wait] = "pending"]_vars

\* A load failed, a caller saw the rejection, and a later load gave an engine.
C8_Witness ==
  /\ promState[1] = "rejected"
  /\ \E p \in Promises : promState[p] = "resolved" /\ ffmpegLoaded /\ inv[1].ff = p
  /\ inv[2].pc = "done" /\ inv[2].err = "load"

\* C9: whatever step failed, a settled invocation has left none of its own
\* frame, audio, image or output entries in the engine filesystem.
C9_CleanAfterAnyFailure ==
  \A s \in Slots :
    (inv[s].pc = "done" /\ inv[s].err \in {"write", "execThrow", "nonzero", "read"})
      => \A f \in WrittenBy(inv[s].kind) : fs[f] # s

(***************************************************************************)
(*                        Properties of the editor                         *)
(***************************************************************************)
\* An encoder invocation started by the editor / by posting is in progress.
EditorEncoding == conv.pc = "encode"
PostEncoding == post.pc = "convert"

\* C3: at no time are two invocations of runConversion / createVideoFromFrames
\* in progress at once, whatever the order of Generate Video Preview,
\* Try Again and Post to Bluesky.
C3_NoOverlappingEncodes == ~(EditorEncoding /\ PostEncoding)

\* The step on which convertAudioToVideo completes successfully / fails.
ConvSuccessStep == conv.pc = "encode" /\ conv'.pc = "idle" /\ ed'.pane # "error"
ConvFailureStep == conv.pc # "idle" /\ conv'.pc = "idle" /\ ed'.pane = "error"

\* The inputs the finished run read and encoded, as a settings snapshot; the
\* simple branch reads no text, there the snapshot's own text stands.
UsedInputs(c, snap) ==
  [imageText |-> IF c.useWaveformViz THEN c.sceneText ELSE snap.imageText,
   choices |-> IF c.useWaveformViz THEN c.choicesText ELSE snap.choices,
   backgroundImage |-> c.bg,
   useWaveform |-> c.useWaveformViz]

\* C4: on every successful conversion lastVideoSettings becomes the inputs
\* that this run read and encoded, also when the user edited them meanwhile.
C4_SnapshotIsWhatWasEncoded ==
  [][ConvSuccessStep
       => ed'.lastVideoSettings = UsedInputs(conv, ed'.lastVideoSettings)]_vars

\* The four tracked inputs, compared one by one with lastVideoSettings.
SameAsSnapshot ==
  /\ ed.imageText = ed.lastVideoSettings.imageText
  /\ ed.choices = ed.lastVideoSettings.choices
  /\ ed.lastBackgroundImage = ed.lastVideoSettings.backgroundImage
  /\ ed.useWaveform = ed.lastVideoSettings.useWaveform

HasCachedVideo == ed.audioFile # NoAudio /\ ed.convertedVideoBlob.present

\* C5: whenever postToBluesky takes the previously converted video for the
\* upload, that video is not marked outdated and the current inputs are the
\* ones of its snapshot.
C5_NoStaleVideoPosted ==
  [][(post.pc = "idle" /\ post'.pc = "upload" /\ post'.cached)
       => (~ed.videoPreviewOutdated /\ SameAsSnapshot)]_vars

\* C6: with an audio file and a cached video, whenever one of the four tracked
\* inputs differs from lastVideoSettings, videoPreviewOutdated is true; and
\* once the pending preview refresh has run, the pane does not show the
\* cached video as ready.
C6_DifferenceMarksOutdated ==
  (HasCachedVideo /\ ~SameAsSnapshot)
    => /\ ed.videoPreviewOutdated
       /\ ~ed.previewRefreshTimer => ed.pane # "video"

\* Only the choices differ from the snapshot of the cached video, no
\* conversion is running, and the pane offers the regeneration.
C6_Witness ==
  /\ HasCachedVideo
  /\ ed.choices # ed.lastVideoSettings.choices
  /\ ed.imageText = ed.lastVideoSettings.imageText
  /\ ed.lastBackgroundImage = ed.lastVideoSettings.backgroundImage
  /\ ed.useWaveform = ed.lastVideoSettings.useWaveform
  /\ ed.videoPreviewOutdated
  /\ ed.pane = "generate"
  /\ conv.pc = "idle"

\* C7: whenever the four tracked inputs equal lastVideoSettings the cached
\* video counts as fresh: it is not marked outdated.
C7_EqualInputsAreFresh ==
  (HasCachedVideo /\ SameAsSnapshot) => ~ed.videoPreviewOutdated

\* C10: every step of convertAudioToVideo other than its successful
\* completion (the start, the intermediate awaits, a failure at any step)
\* leaves convertedVideoBlob, lastVideoSettings and videoPreviewOutdated as
\* they were.
C10_FailureKeepsCache ==
  [][(conv'.pc # conv.pc /\ ~ConvSuccessStep)
       => /\ ed'.convertedVideoBlob = ed.convertedVideoBlob
          /\ ed'.lastVideoSettings = ed.lastVideoSettings
          /\ ed'.videoPreviewOutdated = ed.videoPreviewOutdated]_vars

\* A conversion has failed (the error pane with "Try Again" is shown) while a
\* previously converted video is cached.
C10_Witness ==
  /\ ed.pane = "error"
  /\ ~ed.isConvertingAudio
  /\ HasCachedVideo
  /\ ed.videoPreviewOutdated

(***************************************************************************)
(*                   Properties of the frame generator                     *)
(***************************************************************************)
\* C11: a returned generateWaveformFrames call has exactly
\* ceil(duration * fps) frames, duration being rawData.length / sampleRate
\* (n is that ceiling exactly when n - 1 < duration * fps <= n), and the
\* k-th frame of the result is the k-th one generated.
C11_FrameCount ==
  gen.pc = "returned"
    => LET n == Len(gen.frames)
       IN /\ (n - 1) * SampleRate < Len(gen.raw) * gen.fps
          /\ Len(gen.raw) * gen.fps <= n * SampleRate
          /\ \A k \in 1..n : gen.frames[k].index = k - 1

\* 2 seconds of audio at fps 10 gave 20 frames.
C11_Witness ==
  /\ gen.pc = "returned"
  /\ Len(gen.raw) = 2 * SampleRate
  /\ gen.fps = 10
  /\ Len(gen.frames) = 20

\* C12: frame f of totalFrames frames is rendered with progress
\* f / (totalFrames - 1), the last one with exactly 1 (also when it is the
\* only one); the progress never decreases along the frames and lies in
\* [0, 1].
C12_FrameProgress ==
  \A k \in 1..Len(gen.frames) :
    LET p == gen.frames[k].progress
    IN /\ IF k = gen.totalFrames
            THEN p = <<1, 1>>
            ELSE p[1] * (gen.totalFrames - 1) = (k - 1) * p[2]
       /\ 0 <= p[1] /\ p[1] <= p[2]
       /\ k > 1 => gen.frames[k - 1].progress[1] * p[2]
                      <= p[1] * gen.frames[k - 1].progress[2]

\* A sequence of a single frame, rendered with progress 1.
C12_Witness ==
  /\ gen.pc = "returned"
  /\ gen.totalFrames = 1
  /\ Len(gen.frames) = 1
  /\ gen.frames[1].progress = <<1, 1>>

\* C13: with a callback, onProgress has been called once for each frame
\* generated so far: the k-th call is (k, total, 'Generating frames') with
\* the same total in every call, made when k frames had been appended; the
\* last call of a returned generation has current = total.
C13_GenerationCallbacks ==
  gen.cb
    => /\ Len(calls) = Len(gen.frames)
       /\ \A k \in 1..Len(calls) :
            /\ calls[k].stage = "Generating frames"
            /\ calls[k].current = k
            /\ calls[k].total = calls[1].total
            /\ calls[k].pushed = k
       /\ (gen.pc = "returned" /\ Len(calls) > 0)
            => calls[Len(calls)].current = calls[Len(calls)].total

\* Three frames were generated and reported one by one.
C13_Witness ==
  /\ gen.pc = "returned"
  /\ gen.cb
  /\ Len(gen.frames) = 3
  /\ Len(calls) = 3
  /\ calls[3].current = 3 /\ calls[3].total = 3

\* analyzeAudio has returned in the followed call.
Analyzed == gen.pc \in {"loadBg", "text", "loop", "returned"}

\* C15: for audio with a non-zero sample the largest value of sampleData is
\* exactly 1 and every value lies in [0, 1]; for silent audio every value
\* is 0 (whatever the length of the audio; stated for sampleData that has
\* at least one value).
C15_NormalizedPeak ==
  (Analyzed /\ Len(gen.sampleData) > 0)
    => /\ \A i \in 1..Len(gen.sampleData) :
            0 <= gen.sampleData[i][1] /\ gen.sampleData[i][1] <= gen.sampleData[i][2]
       /\ IF \E j \in 1..Len(gen.raw) : gen.raw[j] # 0
            THEN \E i \in 1..Len(gen.sampleData) : gen.sampleData[i] = <<1, 1>>
            ELSE \A i \in 1..Len(gen.sampleData) : gen.sampleData[i][1] = 0

\* C16: analyzeAudio returns exactly floor(VIDEO_WIDTH / barWidth) samples,
\* whatever the length of the audio (n is that floor exactly when
\* n * barWidth <= VIDEO_WIDTH < (n + 1) * barWidth).
C16_SampleCount ==
  Analyzed
    => LET n == Len(gen.sampleData)
       IN /\ n * gen.barWidth[1] <= VIDEO_WIDTH * gen.barWidth[2]
          /\ VIDEO_WIDTH * gen.barWidth[2] < (n + 1) * gen.barWidth[1]

\* 180 samples for barWidth 4 from an audio of a single PCM sample.
C16_Witness ==
  /\ Analyzed
  /\ gen.barWidth = <<4, 1>>
  /\ Len(gen.raw) = 1
  /\ Len(gen.sampleData) = 180

\* C17: a background image of aspect 2.0 on the 720 x 1280 canvas is drawn
\* letterboxed and centred: drawWidth = 720, drawHeight = 360, offsetY = 460.
C17_LetterboxRect ==
  (gen.image.present /\ gen.image.width = 2 * gen.image.height /\ Len(gen.frames) > 0)
    => /\ gen.rect.drawWidth = <<720, 1>>
       /\ gen.rect.drawHeight = <<360, 1>>
       /\ gen.rect.offsetY = <<460, 1>>

\* x <= y and x + y for fractions with positive denominators.
QLeq(x, y) == x[1] * y[2] <= y[1] * x[2]
QSum(x, y) == Q(x[1] * y[2] + y[1] * x[2], x[2] * y[2])

\* C23: with a background image the draw rectangle keeps the image's aspect
\* ratio, is centred, covers the whole canvas and has one dimension equal to
\* the canvas dimension; without one every frame is painted on the solid
\* background colour.
C23_CoverFit ==
  Len(gen.frames) > 0
    => IF gen.image.present
         THEN LET r == gen.rect
                  W == <<VIDEO_WIDTH, 1>>
                  H == <<VIDEO_HEIGHT, 1>>
              IN /\ r.drawWidth[1] * r.drawHeight[2] * gen.image.height
                      = r.drawHeight[1] * r.drawWidth[2] * gen.image.width
                 /\ QSum(QSum(r.offsetX, r.offsetX), r.drawWidth) = W
                 /\ QSum(QSum(r.offsetY, r.offsetY), r.drawHeight) = H
                 /\ QLeq(r.offsetX, <<0, 1>>) /\ QLeq(r.offsetY, <<0, 1>>)
                 /\ QLeq(W, QSum(r.offsetX, r.drawWidth))
                 /\ QLeq(H, QSum(r.offsetY, r.drawHeight))
                 /\ (r.drawWidth = W \/ r.drawHeight = H)
         ELSE \A k \in 1..Len(gen.frames) :
                /\ gen.frames[k].pixels["upper"][1] = BackgroundPaint
                /\ gen.frames[k].pixels["gap"][1] = BackgroundPaint

\* A frame was drawn on an image wider than the canvas, cropped at the sides.
C23_Witness ==
  /\ Len(gen.frames) > 0
  /\ gen.image.present
  /\ gen.image.width * VIDEO_HEIGHT > gen.image.height * VIDEO_WIDTH
  /\ gen.rect.offsetX[1] < 0

\* What one frame is when its arguments are rendered on a canvas nothing
\* has been drawn on.
RenderedAlone(progress) ==
  LET drawn == DrawWaveform(BlankCanvas, gen.sampleData, gen.options, progress, gen.image)
  IN IF gen.text THEN CompositeText(drawn) ELSE drawn

\* C18: every frame of the sequence is what a render of the same sample
\* data, options, progress and images gives on a fresh canvas: nothing the
\* earlier frames left on the reused canvas shows in it.
C18_FramesIndependentOfCanvas ==
  \A k \in 1..Len(gen.frames) :
    gen.frames[k].pixels = RenderedAlone(gen.frames[k].progress)

\* C22: once analyzeAudio has returned or thrown, the AudioContext it
\* created is closed.
C22_ContextReleased ==
  gen.pc \notin {"idle", "analyze"} => gen.audioContext = "closed"

\* Bar i of frame k has the played colour as base colour.
IsPlayed(k, i) == gen.frames[k].bars[i + 1].base = <<119, 119, 187>>

\* C24: in frame k bar i has the played base colour exactly when
\* i / sampleCount < progress, and the unplayed colour otherwise; the set of
\* played bars only grows over the sequence, is empty at progress 0 and is
\* every bar in the final frame.
C24_PlayedBars ==
  LET n == Len(gen.sampleData)
  IN \A k \in 1..Len(gen.frames) :
       LET p == gen.frames[k].progress
       IN \A i \in 0..(n - 1) :
            /\ IsPlayed(k, i) <=> i * p[2] < p[1] * n
            /\ ~IsPlayed(k, i) => gen.frames[k].bars[i + 1].base = <<230, 230, 255>>
            /\ (k > 1 /\ IsPlayed(k - 1, i)) => IsPlayed(k, i)
            /\ p[1] = 0 => ~IsPlayed(k, i)
            /\ (gen.pc = "returned" /\ k = Len(gen.frames)) => IsPlayed(k, i)

\* A sequence of three or more frames was generated for several bars: none
\* played in the first, some in the second, all in the last.
C24_Witness ==
  /\ gen.pc = "returned"
  /\ Len(gen.frames) >= 3
  /\ Len(gen.sampleData) >= 3
  /\ ~IsPlayed(1, 0)
  /\ IsPlayed(2, 0) /\ ~IsPlayed(2, Len(gen.sampleData) - 1)
  /\ IsPlayed(Len(gen.frames), Len(gen.sampleData) - 1)

\* C25: with the glow enabled, a bar nearer to the play position than
\* playAreaWidth pixels has every channel at min(255, base + b) with
\* b = floor((1 - distance / range) * playAreaBrightness), so
\* 0 <= b <= playAreaBrightness; a bar at or beyond the range keeps its base
\* colour.
C25_GlowBounded ==
  LET n == Len(gen.sampleData)
      maxB == gen.options.playAreaBrightness
  IN gen.options.playAreaGlow
       => \A k \in 1..Len(gen.frames), i \in 0..(n - 1) :
            LET p == gen.frames[k].progress
                bar == gen.frames[k].bars[i + 1]
                \* |i/n - p| = dn / dd and the range is 50 / 720
                dn == Abs(i * p[2] - p[1] * n)
                dd == n * p[2]
                \* (1 - distance / range) * maxB = sn / sd
                sn == (50 * dd - 720 * dn) * maxB
                sd == 50 * dd
             IN IF 720 * dn < 50 * dd
                  THEN \E b \in 0..maxB :
                         /\ b * sd <= sn /\ sn < (b + 1) * sd
                         /\ \A c \in 1..3 :
                              bar.color[c] = IF bar.base[c] + b > 255 THEN 255
                                             ELSE bar.base[c] + b
                  ELSE bar.color = bar.base

\* C26: no stage puts an empty result in the place of a failure: a frame
\* whose encoding to a still image gave no blob is never appended to the
\* frames (the generation fails instead).
C26_NoNullFrame ==
  \A k \in 1..Len(gen.frames) : gen.frames[k].blob # "null"

(***************************************************************************)
(*               Properties of the error capture and the order             *)
(***************************************************************************)
\* The step on which the encode command of invocation s returns non-zero
\* and the error is thrown.
ThrowsNonZero(s) ==
  inv[s].pc = "exec" /\ inv'[s].pc # "exec" /\ inv'[s].err = "nonzero"

\* C14: the error thrown on a non-zero result carries the latest
\* error-tagged log line captured since this invocation was called, and the
\* 'Unknown error' text exactly when no such line was captured; so never a
\* line captured during an earlier invocation.
C14_DetailIsOwnLatestLine ==
  [][\A s \in Slots :
       ThrowsNonZero(s)
         => inv'[s].detail = IF inv[s].seen = 0
                               THEN [unknown |-> TRUE, line |-> 0]
                               ELSE [unknown |-> FALSE, line |-> inv[s].seen]]_vars

\* The engine operations of the followed invocation that are frame writes.
IsFrameWrite(op) == op[1] = "write" /\ op[2][1] = "frame"
FrameWrites == SelectSeq(ops, IsFrameWrite)
WroteAudio == <<"write", AudioName>>
ReturnedZero == <<"result", <<"zero", <<>>>>>>

\* C19: in one createVideoFromFrames invocation the k-th frame written is
\* the k-th frame generated and goes to frame_0000<k-1>; the audio is
\* written after all the frames and before the encode command starts; the
\* output is read only after the command returned 0; once a file of the
\* invocation is deleted, nothing but deletions follows.
C19_EngineOrder ==
  /\ \A k \in 1..Len(FrameWrites) :
       /\ FrameWrites[k] = <<"write", <<"frame", <<0, 0, 0, 0, k - 1>>>>>>
       /\ gen.frames[k].index = k - 1
  /\ \A j \in 1..Len(ops) :
       /\ ops[j] = WroteAudio
            => /\ Len(SelectSeq(SubSeq(ops, 1, j), IsFrameWrite)) = Len(gen.frames)
               /\ \A i \in j..Len(ops) : ~IsFrameWrite(ops[i])
       /\ ops[j][1] = "exec" => \E i \in 1..(j - 1) : ops[i] = WroteAudio
       /\ ops[j][1] = "read" => \E i \in 1..(j - 1) : ops[i] = ReturnedZero
       /\ (ops[j][1] = "delete" /\ \E i \in 1..(j - 1) : ops[i][1] = "write")
            => \A i \in j..Len(ops) : ops[i][1] = "delete"

\* The invocation wrote every frame and the audio, ran the command, read
\* the output and deleted the files.
C19_Witness ==
  /\ Len(FrameWrites) = NumFrames
  /\ \E j \in 1..Len(ops) : ops[j][1] = "read"
  /\ Len(ops) > 0 /\ ops[Len(ops)] = <<"delete", OutputName>>
  /\ \E s \in Slots : inv[s].cb = "cur" /\ inv[s].pc = "done"

(***************************************************************************)
(*                 Properties of the progress reporting                    *)
(***************************************************************************)
IsEncoding(call) == call.stage = "Encoding video"
IsGenerating(call) == call.stage = "Generating frames"

\* current is fraction * 100 rounded to the nearest integer, halves upwards.
IsRounded(current, fraction) ==
  /\ (2 * current - 1) * fraction[2] <= 200 * fraction[1]
  /\ 200 * fraction[1] < (2 * current + 1) * fraction[2]

\* C20: of the onProgress calls of one waveform conversion, every
\* 'Encoding video' call comes after all the 'Generating frames' calls and
\* none of those follows it; the first encoding call is (0, 100); a
\* fraction the engine reports is forwarded as (round(fraction * 100), 100).
C20_EncodingAfterGeneration ==
  \A j \in 1..Len(calls) :
    IsEncoding(calls[j])
      => /\ Len(SelectSeq(SubSeq(calls, 1, j), IsGenerating)) = gen.totalFrames
         /\ \A i \in j..Len(calls) : IsEncoding(calls[i])
         /\ calls[j].total = 100
         /\ (\A i \in 1..(j - 1) : ~IsEncoding(calls[i])) => calls[j].current = 0
         /\ calls[j].source = "engine"
              => /\ ~QLess(calls[j].fraction, Q(0, 1))
                 /\ IsRounded(calls[j].current, calls[j].fraction)

\* The conversion reported its frames, then 0, an engine fraction of 1/8 as
\* 13 and the final 100.
C20_Witness ==
  /\ gen.totalFrames = NumFrames
  /\ Len(calls) = NumFrames + 3
  /\ IsGenerating(calls[NumFrames])
  /\ calls[NumFrames + 1].current = 0 /\ calls[NumFrames + 1].source = "orchestrator"
  /\ calls[NumFrames + 2].source = "engine" /\ calls[NumFrames + 2].fraction = <<1, 8>>
  /\ calls[NumFrames + 2].current = 13
  /\ calls[NumFrames + 3].current = 100

(***************************************************************************)
(*                 Properties of the conversion guard                      *)
(***************************************************************************)
ConversionTrigger == GenerateClick \/ TryAgainClick

\* C21: while a conversion is in flight a further trigger changes nothing;
\* the flag is set exactly while an attempt is in flight and every attempt
\* ends, so the flag is reset; with the flag reset and an audio file a
\* trigger starts a new attempt.
C21_OneConversionAtATime ==
  /\ [][(ed.isConvertingAudio /\ ConversionTrigger) => UNCHANGED vars]_vars
  /\ [](ed.isConvertingAudio <=> conv.pc # "idle")
  /\ (ed.isConvertingAudio ~> ~ed.isConvertingAudio)
  /\ [][(~ed.isConvertingAudio /\ ed.audioFile # NoAudio /\ ConversionTrigger)
         => (ed'.isConvertingAudio /\ conv'.pc = "import")]_vars

\* A conversion is in flight and the preview pane shows the generate button.
C21_Witness ==
  /\ ed.isConvertingAudio
  /\ conv.pc \in {"frames", "encode"}
  /\ ed.pane = "generate"

\* C27: a waveform conversion that succeeds has muxed the audio file its
\* frames were generated from, whatever the user did to the audio file
\* while the frames were generated.
C27_FramesAndSoundOfOneAudio ==
  [][(ConvSuccessStep /\ conv.useWaveformViz) => conv.audio = conv.framesAudio]_vars

(***************************************************************************)
(*              Properties of the registered progress callback             *)
(***************************************************************************)
\* A createVideoFromFrames call is between its call and its settling.
FramesCallInFlight ==
  \E s \in Slots : inv[s].kind = "frames" /\ inv[s].pc \notin {"idle", "done"}

\* C28: when no createVideoFromFrames call is in flight, the registered
\* progress callback is null, however the last call ended.
C28_CallbackClearedOnSettle ==
  ~FramesCallInFlight => currentProgressCallback = "null"

\* C29: onProgress(100, 100, 'Encoding video') is called by
\* createVideoFromFrames only when the encode command returned 0.
C29_CompleteOnlyOnZero ==
  (\E j \in 1..Len(calls) : calls[j].source = "orchestrator" /\ calls[j].current = 100)
    => \E i \in 1..Len(ops) : ops[i] = ReturnedZero

(***************************************************************************)
(*                   Properties of the thread navigation                   *)
(***************************************************************************)
\* C30: whenever no selectPost is waiting for its fetch, editingReplyTo is
\* null or the post of the last node of threadPath, the depth of every node
\* is its index in threadPath, and the replies a node holds were fetched for
\* the post of that node.
C30_ReplyTargetFollowsPath ==
  Len(app.pending) = 0 =>
    /\ \/ app.editingReplyTo = NoPost
       \/ /\ Len(app.threadPath) > 0
          /\ app.editingReplyTo = app.threadPath[Len(app.threadPath)].post
    /\ \A i \in 1..Len(app.threadPath) :
         /\ app.threadPath[i].depth = i - 1
         /\ app.threadPath[i].fetchedFor \in {NoPost, app.threadPath[i].post}

====
